---- MODULE Spec2Model ----
(***************************************************************************)
(* LLM Council: the decision pipeline of src/core/council.py               *)
(* (LLMCouncil.decide and LLMCouncil.decide_generator) with the safety     *)
(* gate, the agent and judge fan-outs, the selector, the synthesizer, the  *)
(* retry branch, the risk assessor and the audit logger.                   *)
(*                                                                         *)
(* Numbers.  Python floats are modelled in exact fixed point.  A score on  *)
(* the 0..10 scale is an integer number of 1/ScoreOne units, a confidence  *)
(* on the 0..1 scale an integer number of 1/ConfOne units.  ScoreOne is    *)
(* chosen so that weighted averages with percent weights and averages over *)
(* one, two or three evaluations are exact.                                *)
(*                                                                         *)
(* Texts are TLA+ strings; None is the empty record NoneVal.               *)
(***************************************************************************)
EXTENDS Integers, Sequences, FiniteSets, TLC

\* ------------------------------------------------------------------------
\* Bounds of the model
\* ------------------------------------------------------------------------
\* max_retries is 0, 1 (the default) or MaxRetriesCfg
MaxRetriesCfg == 2
\* a streamed answer has at most MaxChunks content chunks
MaxChunks == 1
\* the polling loop of decide_generator yields at most MaxPolls snapshots
\* after the first one while the stream tasks are still running
MaxPolls == 0
\* number of values of Python's per-process string hash seed
HashSeeds == 2
\* the selector specification draws evaluation lists of at most MaxSelEvals
MaxSelEvals == 3
\* the assessor specification draws evaluation lists of at most MaxAssessEvals
MaxAssessEvals == 3
\* the gate specification draws queries of at most MaxGateWords pieces
MaxGateWords == 3

\* ------------------------------------------------------------------------
\* Fixed point
\* ------------------------------------------------------------------------
ScoreOne == 12 * 100
ConfOne == 10 * ScoreOne
\* n/2 score points
Half(n) == (n * ScoreOne) \div 2
Pts(n) == n * ScoreOne

Min(a, b) == IF a <= b THEN a ELSE b

NoneVal == [none |-> TRUE]

RECURSIVE SeqSum(_)
SeqSum(s) == IF s = <<>> THEN 0 ELSE Head(s) + SeqSum(Tail(s))

SeqMax(s) == CHOOSE m \in {s[i] : i \in 1..Len(s)} : \A i \in 1..Len(s) : s[i] <= m
SeqMin(s) == CHOOSE m \in {s[i] : i \in 1..Len(s)} : \A i \in 1..Len(s) : s[i] >= m

\* the first list alone in place of the concatenation of all of them
FlattenFirst(ss) == IF ss = <<>> THEN <<>> ELSE Head(ss)

\* the lists concatenated from the last to the first
RECURSIVE FlattenReversed(_)
FlattenReversed(ss) == IF ss = <<>> THEN <<>> ELSE FlattenReversed(Tail(ss)) \o Head(ss)

RECURSIVE Flatten(_)
Flatten(ss) == IF ss = <<>> THEN <<>> ELSE Head(ss) \o Flatten(Tail(ss))

\* ------------------------------------------------------------------------
\* Python string operations
\* ------------------------------------------------------------------------
UpperLetters == <<"A", "B", "C", "D", "E", "F", "G", "H", "I", "J", "K", "L", "M",
                  "N", "O", "P", "Q", "R", "S", "T", "U", "V", "W", "X", "Y", "Z">>
LowerLetters == <<"a", "b", "c", "d", "e", "f", "g", "h", "i", "j", "k", "l", "m",
                  "n", "o", "p", "q", "r", "s", "t", "u", "v", "w", "x", "y", "z">>

\* the characters of s
Chars(s) == [i \in 1..Len(s) |-> SubSeq(s, i, i)]

\* "".join(parts)
RECURSIVE Concat(_)
Concat(parts) ==
    IF Len(parts) = 0 THEN ""
    ELSE IF Len(parts) = 1 THEN parts[1]
    ELSE LET h == Len(parts) \div 2
         IN  Concat(SubSeq(parts, 1, h)) \o Concat(SubSeq(parts, h + 1, Len(parts)))

LowerChar(c) ==
    IF \E i \in 1..Len(UpperLetters) : UpperLetters[i] = c
    THEN LowerLetters[CHOOSE i \in 1..Len(UpperLetters) : UpperLetters[i] = c]
    ELSE c

\* str.lower()
Lower(s) == LET cs == Chars(s) IN Concat([i \in 1..Len(cs) |-> LowerChar(cs[i])])

\* str.strip(): from the first to the last character that is not a blank
Strip(s) ==
    LET cs == Chars(s)
        solid == {i \in 1..Len(cs) : cs[i] # " "}
    IN  IF solid = {} THEN ""
        ELSE SubSeq(s, CHOOSE i \in solid : \A j \in solid : i <= j,
                       CHOOSE i \in solid : \A j \in solid : j <= i)

\* sub in s
Contains(s, sub) ==
    LET cs == Chars(s)
        ps == Chars(sub)
    IN  \E i \in 1..(Len(cs) - Len(ps) + 1) : \A k \in 1..Len(ps) : cs[i + k - 1] = ps[k]

\* s[:n]
Prefix(s, n) == SubSeq(s, 1, Min(n, Len(s)))

\* ------------------------------------------------------------------------
\* Safety gate (src/safety/gate.py)
\* ------------------------------------------------------------------------
blocked_keywords == <<"bomb", "Hack", "xx">>
\* the configured regular expressions are literals, compiled with re.IGNORECASE
blocked_patterns == <<"steal", "malware">>
allowlist_patterns == <<"history of">>
\* constraints.get('min_query_length', 3)
min_query_length == 3
\* the configured constraints.max_query_length, scaled to the queries drawn
max_query_length == 20

\* pattern.search(query) for a literal pattern compiled with re.IGNORECASE
Search(pattern, q) == Contains(Lower(q), Lower(pattern))

SafetyResult(passed, reason, matched) ==
    [passed |-> passed, reason |-> reason, matched_patterns |-> matched]

RECURSIVE MatchedPatterns(_, _)
MatchedPatterns(patterns, q) ==
    IF patterns = <<>> THEN <<>>
    ELSE (IF Search(Head(patterns), q) THEN <<Head(patterns)>> ELSE <<>>)
         \o MatchedPatterns(Tail(patterns), q)

\* SafetyGate.check with the allowlist consulted before the blocklists
CheckAllowlistFirst(q0) ==
    LET q == Strip(q0)
        kw == {i \in 1..Len(blocked_keywords) : Contains(Lower(q), Lower(blocked_keywords[i]))}
        matched == MatchedPatterns(blocked_patterns, q)
    IN  IF Len(q0) = 0 \/ Len(q) = 0
        THEN SafetyResult(FALSE, "Query is empty", <<>>)
        ELSE IF Len(q) < min_query_length
        THEN SafetyResult(FALSE, "Query too short (min " \o ToString(min_query_length)
                                 \o " chars)", <<>>)
        ELSE IF Len(q) > max_query_length
        THEN SafetyResult(FALSE, "Query too long (max " \o ToString(max_query_length)
                                 \o " chars)", <<>>)
        ELSE IF \E i \in 1..Len(allowlist_patterns) : Search(allowlist_patterns[i], q)
        THEN SafetyResult(TRUE, "Allowlisted query", <<>>)
        ELSE IF kw # {}
        THEN LET k == blocked_keywords[CHOOSE i \in kw : \A j \in kw : i <= j]
             IN  SafetyResult(FALSE, "Blocked keyword detected: '" \o k \o "'", <<k>>)
        ELSE IF matched # <<>>
        THEN SafetyResult(FALSE, "Blocked pattern matched", matched)
        ELSE SafetyResult(TRUE, "Query passed all safety checks", <<>>)

\* SafetyGate.check with the blocked keywords looked up before the length
\* checks
CheckKeywordsFirst(q0) ==
    LET q == Strip(q0)
        kw == {i \in 1..Len(blocked_keywords) : Contains(Lower(q), Lower(blocked_keywords[i]))}
        matched == MatchedPatterns(blocked_patterns, q)
    IN  IF Len(q0) = 0 \/ Len(q) = 0
        THEN SafetyResult(FALSE, "Query is empty", <<>>)
        ELSE IF kw # {}
        THEN LET k == blocked_keywords[CHOOSE i \in kw : \A j \in kw : i <= j]
             IN  SafetyResult(FALSE, "Blocked keyword detected: '" \o k \o "'", <<k>>)
        ELSE IF Len(q) < min_query_length
        THEN SafetyResult(FALSE, "Query too short (min " \o ToString(min_query_length)
                                 \o " chars)", <<>>)
        ELSE IF Len(q) > max_query_length
        THEN SafetyResult(FALSE, "Query too long (max " \o ToString(max_query_length)
                                 \o " chars)", <<>>)
        ELSE IF matched # <<>>
        THEN SafetyResult(FALSE, "Blocked pattern matched", matched)
        ELSE IF \E i \in 1..Len(allowlist_patterns) : Search(allowlist_patterns[i], q)
        THEN SafetyResult(TRUE, "Allowlisted query", <<>>)
        ELSE SafetyResult(TRUE, "Query passed all safety checks", <<>>)

\* SafetyGate.check
Check(q0) ==
    LET q == Strip(q0)
        kw == {i \in 1..Len(blocked_keywords) : Contains(Lower(q), Lower(blocked_keywords[i]))}
        matched == MatchedPatterns(blocked_patterns, q)
    IN  IF Len(q0) = 0 \/ Len(q) = 0
        THEN SafetyResult(FALSE, "Query is empty", <<>>)
        ELSE IF Len(q) < min_query_length
        THEN SafetyResult(FALSE, "Query too short (min " \o ToString(min_query_length)
                                 \o " chars)", <<>>)
        ELSE IF Len(q) > max_query_length
        THEN SafetyResult(FALSE, "Query too long (max " \o ToString(max_query_length)
                                 \o " chars)", <<>>)
        ELSE IF kw # {}
        THEN LET k == blocked_keywords[CHOOSE i \in kw : \A j \in kw : i <= j]
             IN  SafetyResult(FALSE, "Blocked keyword detected: '" \o k \o "'", <<k>>)
        ELSE IF matched # <<>>
        THEN SafetyResult(FALSE, "Blocked pattern matched", matched)
        ELSE IF \E i \in 1..Len(allowlist_patterns) : Search(allowlist_patterns[i], q)
        THEN SafetyResult(TRUE, "Allowlisted query", <<>>)
        ELSE SafetyResult(TRUE, "Query passed all safety checks", <<>>)

\* ------------------------------------------------------------------------
\* Audit logger (src/audit/logger.py)
\* ------------------------------------------------------------------------
HashAlphabet == <<" ">> \o LowerLetters \o UpperLetters
HexDigits == "0123456789abcdef"
HashWidth == 16

CharCode(c) ==
    IF \E i \in 1..Len(HashAlphabet) : HashAlphabet[i] = c
    THEN CHOOSE i \in 1..Len(HashAlphabet) : HashAlphabet[i] = c
    ELSE 0

\* a digest of the characters cs and their positions
RECURSIVE Digest(_, _)
Digest(cs, k) ==
    IF k > Len(cs) THEN 0
    ELSE (((CharCode(cs[k]) + 7) * (k * k + 31)) + 3 * Digest(cs, k + 1))
         % (16 * 16 * 16 * 16)

RECURSIVE Hex(_, _)
Hex(n, width) ==
    IF width = 0 THEN ""
    ELSE Hex(n \div 16, width - 1) \o SubSeq(HexDigits, (n % 16) + 1, (n % 16) + 1)

\* AuditLogger._hash_query: a fixed-length hexadecimal digest of the query
\* (sha256(query)[:16] in the code; a HashWidth-digit polynomial digest here)
HashQuery(q) == Hex(Digest(Chars(q), 1), HashWidth)

\* Decision.get_agent_scores: the average total score of every agent, in
\* order of first appearance in the evaluation list
RECURSIVE FirstSeen(_, _)
FirstSeen(evals, seen) ==
    IF evals = <<>> THEN <<>>
    ELSE IF Head(evals).target_agent_id \in seen
         THEN FirstSeen(Tail(evals), seen)
         ELSE <<Head(evals).target_agent_id>>
              \o FirstSeen(Tail(evals), seen \cup {Head(evals).target_agent_id})

RECURSIVE TotalsOf(_, _)
TotalsOf(evals, aid) ==
    IF evals = <<>> THEN <<>>
    ELSE (IF Head(evals).target_agent_id = aid THEN <<Head(evals).total_score>> ELSE <<>>)
         \o TotalsOf(Tail(evals), aid)

\* sum(scores) / len(scores)
Average(scores) == SeqSum(scores) \div Len(scores)

GetAgentScores(evals) ==
    LET ids == FirstSeen(evals, {})
    IN  [i \in 1..Len(ids) |-> <<ids[i], Average(TotalsOf(evals, ids[i]))>>]

\* Decision.to_dict
DecisionToDict(d) ==
    [decision_id |-> d.decision_id, query |-> d.query,
     agent_responses |-> d.agent_responses,
     judge_evaluations |-> d.judge_evaluations,
     selected_response |-> d.selected_response,
     refined_response |-> d.refined_response,
     confidence_score |-> d.confidence_score,
     risk_level |-> d.risk_level,
     identified_risks |-> d.identified_risks,
     retry_feedback |-> d.retry_feedback,
     safety_passed |-> d.safety_passed,
     judge_disagreement |-> d.judge_disagreement,
     was_refined |-> d.was_refined,
     was_retried |-> d.was_retried,
     agent_scores |-> GetAgentScores(d.judge_evaluations)]

\* AuditLogger.log: the entry appended to the audit file
LogEntry(d) ==
    IF d.kind = "Decision"
    THEN [decision_id |-> d.decision_id, query_hash |-> HashQuery(d.query),
          safety_passed |-> d.safety_passed, type |-> "decision",
          selected_agent |-> d.selected_response.agent_type,
          confidence |-> d.confidence_score, risk_level |-> d.risk_level,
          risks |-> d.identified_risks, was_refined |-> d.was_refined,
          was_retried |-> d.was_retried, judge_disagreement |-> d.judge_disagreement,
          full_decision |-> DecisionToDict(d)]
    ELSE [decision_id |-> d.decision_id, query_hash |-> HashQuery(d.query),
          safety_passed |-> d.safety_passed, type |-> "blocked",
          block_reason |-> d.block_reason, matched_patterns |-> d.matched_patterns]

\* ------------------------------------------------------------------------
\* Configuration: the agent roster and the judges' rubrics
\* ------------------------------------------------------------------------
AgentResponse(id, type, text) ==
    [agent_id |-> id, agent_type |-> type, response_text |-> text]

\* AgentFactory.create_agent: agent_id is "agent_<key>", agent_type the
\* configured name
CreateAgent(key, name) == [agent_id |-> "agent_" \o key, agent_type |-> name]

\* AgentFactory.create_all_agents over the configured roster
Agents == <<CreateAgent("analytical", "Analytical Agent"),
            CreateAgent("creative", "Creative Agent")>>

AgentIx == 1..Len(Agents)

\* JudgeFactory.create_all_judges: the factuality and the safety judge,
\* each with the dimensions of its rubric (name and percent weight)
Judges ==
    <<[judge_id |-> "judge_factuality", judge_type |-> "Factuality",
       dimensions |-> <<[name |-> "accuracy", weight |-> 60],
                        [name |-> "evidence", weight |-> 40]>>],
      [judge_id |-> "judge_safety", judge_type |-> "Safety",
       dimensions |-> <<[name |-> "harm_avoidance", weight |-> 50],
                        [name |-> "bias", weight |-> 50]>>]>>

JudgeIx == 1..Len(Judges)

\* BaseJudge.calculate_weighted_score; scores is a sequence of
\* <<dimension, score>> pairs
CalculateWeightedScore(judge, scores) ==
    LET dims == judge.dimensions
        present == {i \in 1..Len(dims) : \E k \in 1..Len(scores) : scores[k][1] = dims[i].name}
        scoreOf(i) == scores[CHOOSE k \in 1..Len(scores) : scores[k][1] = dims[i].name][2]
        total == SeqSum([i \in 1..Len(dims) |->
                            IF i \in present THEN scoreOf(i) * dims[i].weight ELSE 0])
        total_weight == SeqSum([i \in 1..Len(dims) |->
                            IF i \in present THEN dims[i].weight ELSE 0])
    IN  IF total_weight = 0 THEN 0 ELSE total \div total_weight

JudgeEvaluation(judge, response, scores, reasoning, issues) ==
    [judge_id |-> judge.judge_id, judge_type |-> judge.judge_type,
     target_agent_id |-> response.agent_id, scores |-> scores,
     total_score |-> CalculateWeightedScore(judge, scores),
     reasoning |-> reasoning, flagged_issues |-> issues]

\* Python's hash() of a string: fixed within a process, different between
\* processes (seed)
PyHash(seed, s) == Len(s) * (seed + 1) + seed

\* ------------------------------------------------------------------------
\* Judges (src/judges/evaluators.py)
\* ------------------------------------------------------------------------
\* What the evaluation backend can answer to one call: "raise" is a failed
\* call, the others are parsed JSON payloads: "good" has high scores and a
\* reasoning, "bare" low scores, an empty reasoning and an empty issue list
EvalOutcomes == {"good", "bare", "raise"}
\* further answers: "garbage" is content in which _parse_json_response
\* finds no JSON object, "wild" a payload whose scores are all 15 and that
\* has no other key
ExtraOutcomes == {"garbage", "wild"}
\* the call failed or its content was unusable
UnusableOutcomes == {"raise", "garbage"}

\* parsed.get(dim, 5.0) followed by float(val), for the payload kinds; the
\* dictionary _parse_json_response makes of unparsable content holds 5.0 for
\* every dimension
ParsedScore(outcome, dimIndex) ==
    CASE outcome = "good" -> Pts(9)
      [] outcome = "bare" -> IF dimIndex = 1 THEN Pts(4) ELSE Pts(3)
      [] outcome = "wild" -> Pts(15)
      [] OTHER -> Half(10)

\* parsed.get('reasoning', 'No reasoning provided'): "good" and "bare" carry
\* the key, "bare" with the empty string
ParsedReasoning(outcome) ==
    CASE outcome = "good" -> "sound"
      [] outcome = "bare" -> ""
      [] OTHER -> "No reasoning provided"

\* parsed.get('issues', [])
ParsedIssues(outcome) == <<>>

\* MegaLLMJudge._evaluate_single; client says whether the judge holds a
\* backend client (OPENAI_AVAILABLE and self._async_client)
EvaluateSingle(judge, response, client, outcome, seed) ==
    LET dims == judge.dimensions
    IN  IF ~client
        THEN JudgeEvaluation(judge, response,
                 [i \in 1..Len(dims) |->
                     <<dims[i].name, Pts(7) + Pts(PyHash(seed, response.agent_id) % 3)>>],
                 "Mock evaluation of " \o response.agent_type, <<>>)
        ELSE IF outcome = "raise"
        THEN JudgeEvaluation(judge, response,
                 [i \in 1..Len(dims) |-> <<dims[i].name, Half(10)>>],
                 "Error during evaluation: backend failure",
                 <<"Evaluation error occurred">>)
        ELSE JudgeEvaluation(judge, response,
                 [i \in 1..Len(dims) |-> <<dims[i].name, ParsedScore(outcome, i)>>],
                 ParsedReasoning(outcome), ParsedIssues(outcome))

\* MockJudge.evaluate, for one response
MockEvaluate(judge, response, seed) ==
    LET dims == judge.dimensions
        base_score ==
            IF Contains(response.agent_type, "Analytical") THEN Half(17)
            ELSE IF Contains(response.agent_type, "Creative") THEN Half(15)
            ELSE IF Contains(response.agent_type, "Safety") THEN Pts(8)
            ELSE Pts(7)
    IN  JudgeEvaluation(judge, response,
            [i \in 1..Len(dims) |->
                <<dims[i].name, base_score + Pts(PyHash(seed, dims[i].name) % 2)>>],
            "Mock " \o judge.judge_type \o " evaluation of " \o response.agent_type,
            <<>>)

DisagreementThreshold == 3

\* the judge types that scored agent aid, and the last total each gave
\* (agent_scores[agent_id][eval.judge_type] = eval.total_score)
JudgeTypesFor(evals, aid) ==
    {evals[i].judge_type : i \in {k \in 1..Len(evals) : evals[k].target_agent_id = aid}}

LastTotal(evals, aid, jt) ==
    LET ks == {k \in 1..Len(evals) :
                  evals[k].target_agent_id = aid /\ evals[k].judge_type = jt}
    IN  evals[CHOOSE k \in ks : \A m \in ks : m <= k].total_score

\* check_judge_disagreement looking at the agent of the first evaluation only
CheckJudgeDisagreementFirstAgent(evals, threshold) ==
    /\ evals # <<>>
    /\ LET aid == evals[1].target_agent_id
           jts == JudgeTypesFor(evals, aid)
           vals == {LastTotal(evals, aid, jt) : jt \in jts}
       IN  /\ Cardinality(jts) >= 2
           /\ \E hi \in vals, lo \in vals : hi - lo > threshold

\* check_judge_disagreement with a difference equal to the threshold counted
CheckJudgeDisagreementInclusive(evals, threshold) ==
    \E i \in 1..Len(evals) :
        LET aid == evals[i].target_agent_id
            jts == JudgeTypesFor(evals, aid)
            vals == {LastTotal(evals, aid, jt) : jt \in jts}
        IN  /\ Cardinality(jts) >= 2
            /\ \E hi \in vals, lo \in vals : hi - lo >= threshold

\* check_judge_disagreement
CheckJudgeDisagreement(evals, threshold) ==
    \E i \in 1..Len(evals) :
        LET aid == evals[i].target_agent_id
            jts == JudgeTypesFor(evals, aid)
            vals == {LastTotal(evals, aid, jt) : jt \in jts}
        IN  /\ Cardinality(jts) >= 2
            /\ \E hi \in vals, lo \in vals : hi - lo > threshold

\* ------------------------------------------------------------------------
\* Selector, retry feedback and risk assessor (src/core/council.py)
\* ------------------------------------------------------------------------
RECURSIVE Join(_, _)
Join(sep, parts) ==
    IF parts = <<>> THEN ""
    ELSE IF Len(parts) = 1 THEN Head(parts)
    ELSE Head(parts) \o sep \o Join(sep, Tail(parts))

IsSafetyAdvocate(aid) ==
    Contains(Lower(aid), "safety") \/ Contains(Lower(aid), "advocate")

\* LLMCouncil._select_best picking the lowest average
SelectWorst(responses, evaluations) ==
    IF evaluations = <<>> \/ responses = <<>>
    THEN [raised |-> TRUE]
    ELSE
    LET avg_scores == GetAgentScores(evaluations)
        worst == SeqMin([i \in 1..Len(avg_scores) |-> avg_scores[i][2]])
        top == SelectSeq(avg_scores, LAMBDA e : e[2] = worst)
        hit == {r \in 1..Len(responses) : responses[r].agent_id = top[1][1]}
    IN  [raised |-> FALSE,
         best_response |-> IF hit = {} THEN responses[1]
                           ELSE responses[CHOOSE r \in hit : \A x \in hit : r <= x],
         confidence |-> (worst * ConfOne) \div (10 * ScoreOne),
         best_agent_id |-> top[1][1]]

\* LLMCouncil._select_best taking the last of the tied agents
SelectLastTied(responses, evaluations) ==
    IF evaluations = <<>> \/ responses = <<>>
    THEN [raised |-> TRUE]
    ELSE
    LET avg_scores == GetAgentScores(evaluations)
        best_score == SeqMax([i \in 1..Len(avg_scores) |-> avg_scores[i][2]])
        top_agents == SelectSeq(avg_scores, LAMBDA e : e[2] = best_score)
        marked == {i \in 1..Len(top_agents) : IsSafetyAdvocate(top_agents[i][1])}
        best_agent_id ==
            IF marked = {} THEN top_agents[Len(top_agents)][1]
            ELSE top_agents[CHOOSE i \in marked : \A j \in marked : i <= j][1]
        hit == {r \in 1..Len(responses) : responses[r].agent_id = best_agent_id}
    IN  [raised |-> FALSE,
         best_response |-> IF hit = {} THEN responses[1]
                           ELSE responses[CHOOSE r \in hit : \A x \in hit : r <= x],
         confidence |-> (best_score * ConfOne) \div (10 * ScoreOne),
         best_agent_id |-> best_agent_id]

\* LLMCouncil._select_best without the safety-advocate tie-breaker
SelectNoTieBreak(responses, evaluations) ==
    IF evaluations = <<>> \/ responses = <<>>
    THEN [raised |-> TRUE]
    ELSE
    LET avg_scores == GetAgentScores(evaluations)
        best_score == SeqMax([i \in 1..Len(avg_scores) |-> avg_scores[i][2]])
        top_agents == SelectSeq(avg_scores, LAMBDA e : e[2] = best_score)
        hit == {r \in 1..Len(responses) : responses[r].agent_id = top_agents[1][1]}
    IN  [raised |-> FALSE,
         best_response |-> IF hit = {} THEN responses[1]
                           ELSE responses[CHOOSE r \in hit : \A x \in hit : r <= x],
         confidence |-> (best_score * ConfOne) \div (10 * ScoreOne),
         best_agent_id |-> top_agents[1][1]]

\* LLMCouncil._select_best with the mean of all totals as the confidence
SelectMeanConfidence(responses, evaluations) ==
    IF evaluations = <<>> \/ responses = <<>>
    THEN [raised |-> TRUE]
    ELSE
    LET avg_scores == GetAgentScores(evaluations)
        best_score == SeqMax([i \in 1..Len(avg_scores) |-> avg_scores[i][2]])
        top_agents == SelectSeq(avg_scores, LAMBDA e : e[2] = best_score)
        marked == {i \in 1..Len(top_agents) : IsSafetyAdvocate(top_agents[i][1])}
        best_agent_id ==
            IF marked = {} THEN top_agents[1][1]
            ELSE top_agents[CHOOSE i \in marked : \A j \in marked : i <= j][1]
        hit == {r \in 1..Len(responses) : responses[r].agent_id = best_agent_id}
        mean == SeqSum([i \in 1..Len(evaluations) |-> evaluations[i].total_score])
                    \div Len(evaluations)
    IN  [raised |-> FALSE,
         best_response |-> IF hit = {} THEN responses[1]
                           ELSE responses[CHOOSE r \in hit : \A x \in hit : r <= x],
         confidence |-> (mean * ConfOne) \div (10 * ScoreOne),
         best_agent_id |-> best_agent_id]

\* LLMCouncil._select_best; raised stands for the exception of max() on no
\* averages (or of responses[0] on no responses)
SelectBest(responses, evaluations) ==
    IF evaluations = <<>>
    THEN [raised |-> TRUE]
    ELSE
    LET avg_scores == GetAgentScores(evaluations)
        best_score == SeqMax([i \in 1..Len(avg_scores) |-> avg_scores[i][2]])
        top_agents == SelectSeq(avg_scores, LAMBDA e : e[2] = best_score)
        marked == {i \in 1..Len(top_agents) : IsSafetyAdvocate(top_agents[i][1])}
        best_agent_id ==
            IF marked = {} THEN top_agents[1][1]
            ELSE top_agents[CHOOSE i \in marked : \A j \in marked : i <= j][1]
        hit == {r \in 1..Len(responses) : responses[r].agent_id = best_agent_id}
    IN  IF hit = {} /\ responses = <<>>
        THEN [raised |-> TRUE]
        ELSE [raised |-> FALSE,
              best_response |-> IF hit = {} THEN responses[1]
                                ELSE responses[CHOOSE r \in hit : \A x \in hit : r <= x],
              confidence |-> (best_score * ConfOne) \div (10 * ScoreOne),
              best_agent_id |-> best_agent_id]

\* LLMCouncil._get_judge_feedback
GetJudgeFeedback(evaluations, selected) ==
    LET mine == SelectSeq(evaluations,
                    LAMBDA e : /\ e.target_agent_id = selected.agent_id
                               /\ (e.flagged_issues # <<>> \/ e.reasoning # ""))
        feedback_parts ==
            [i \in 1..Len(mine) |->
                mine[i].judge_type \o " Judge: " \o
                (IF mine[i].flagged_issues # <<>>
                 THEN Join("; ", mine[i].flagged_issues)
                 ELSE mine[i].reasoning)]
    IN  Join(" | ", feedback_parts)

\* str(score) of a float with at most one decimal
FormatScore(x) ==
    LET a == IF x < 0 THEN -x ELSE x
    IN  (IF x < 0 THEN "-" ELSE "") \o ToString(a \div ScoreOne) \o "."
        \o ToString(((a % ScoreOne) * 10) \div ScoreOne)

HasHarmMarker(r) == Contains(Lower(r), "harmful") \/ Contains(Lower(r), "dangerous")

\* every issue appended, whether the list holds it already or not
AppendAll(risks, issues) == risks \o issues

RECURSIVE AppendNew(_, _)
AppendNew(risks, issues) ==
    IF issues = <<>> THEN risks
    ELSE IF \E i \in 1..Len(risks) : risks[i] = Head(issues)
         THEN AppendNew(risks, Tail(issues))
         ELSE AppendNew(Append(risks, Head(issues)), Tail(issues))

\* the "Low <dim> score" entries of one evaluation
SafetyConcerns(e) ==
    IF e.judge_type # "Safety" THEN <<>>
    ELSE LET low == SelectSeq(e.scores, LAMBDA p : p[2] < Pts(5))
         IN  [i \in 1..Len(low) |-> "Low " \o low[i][1] \o " score: " \o FormatScore(low[i][2])]

\* the risk list of LLMCouncil._assess_risk
RiskList(evaluations) ==
    LET concerns == Flatten([i \in 1..Len(evaluations) |-> SafetyConcerns(evaluations[i])])
        issues == Flatten([i \in 1..Len(evaluations) |-> evaluations[i].flagged_issues])
    IN  AppendNew(concerns, issues)

\* LLMCouncil._assess_risk looking at the risk count and the confidence before
\* the harm markers
AssessRiskCountFirst(evaluations, conf, judge_disagreement) ==
    LET risks == RiskList(evaluations)
    IN  [risks |-> risks,
         level |-> IF Len(risks) >= 4 \/ 10 * conf < 4 * ConfOne THEN "HIGH"
                   ELSE IF \E i \in 1..Len(risks) : HasHarmMarker(risks[i]) THEN "CRITICAL"
                   ELSE IF Len(risks) >= 2 \/ 10 * conf < 6 * ConfOne \/ judge_disagreement
                        THEN "MEDIUM"
                   ELSE "LOW"]

\* LLMCouncil._assess_risk
AssessRisk(evaluations, conf, judge_disagreement) ==
    LET risks == RiskList(evaluations)
    IN  [risks |-> risks,
         level |-> IF \E i \in 1..Len(risks) : HasHarmMarker(risks[i]) THEN "CRITICAL"
                   ELSE IF Len(risks) >= 4 \/ 10 * conf < 4 * ConfOne THEN "HIGH"
                   ELSE IF Len(risks) >= 2 \/ 10 * conf < 6 * ConfOne \/ judge_disagreement
                        THEN "MEDIUM"
                   ELSE "LOW"]

\* f"{confidence:.0%}": the percentage rounded to the nearest integer,
\* ties to even
FormatPercent(conf) ==
    LET q == (conf * 100) \div ConfOne
        r == (conf * 100) % ConfOne
        up == 2 * r > ConfOne \/ (2 * r = ConfOne /\ q % 2 = 1)
        n == IF up THEN q + 1 ELSE q
    IN  (IF n < 0 THEN "-" \o ToString(-n) ELSE ToString(n)) \o "%"

\* ------------------------------------------------------------------------
\* Synthesizer (src/core/synthesizer.py)
\* ------------------------------------------------------------------------
\* others = [r for r in all_responses if r.agent_id != winner.agent_id]
NumOthers(winner, all_responses) ==
    Len(SelectSeq(all_responses, LAMBDA r : r.agent_id # winner.agent_id))

Refined(winner, text) ==
    AgentResponse(winner.agent_id \o "_refined", winner.agent_type \o " (Refined)", text)

\* the answer of the refinement backend to the synthesis prompt
BackendRefinement(winner, judge_feedback) ==
    "Refined(" \o winner.response_text \o ")"
    \o (IF judge_feedback # "" THEN " after: " \o judge_feedback ELSE "")

\* Synthesizer.refine; client says whether the synthesizer holds a backend
\* client, outcome what the call does: "init" is _ensure_initialized raising,
\* "raise" a failed backend call, "ok" an answer. The result is [raised |-> TRUE] or [raised |-> FALSE, response, called]
SynthRefine(winner, all_responses, judge_feedback, client, outcome) ==
    IF NumOthers(winner, all_responses) = 0
    THEN [raised |-> FALSE, response |-> winner, called |-> FALSE]
    ELSE IF outcome = "init"
    THEN [raised |-> TRUE]
    ELSE IF ~client
    THEN [raised |-> FALSE, called |-> FALSE,
          response |-> Refined(winner, "[REFINED] " \o winner.response_text
                          \o " [Incorporated insights from "
                          \o ToString(NumOthers(winner, all_responses))
                          \o " other perspectives]")]
    ELSE [raised |-> FALSE, called |-> TRUE,
          response |-> Refined(winner,
                          IF outcome = "ok"
                          THEN BackendRefinement(winner, judge_feedback)
                          ELSE winner.response_text)]

\* MockSynthesizer.refine
MockRefine(winner, all_responses, judge_feedback) ==
    [raised |-> FALSE, called |-> FALSE,
     response |-> Refined(winner, winner.response_text
                     \o " [SYNTHESIS NOTE: This response has been refined by considering "
                     \o ToString(NumOthers(winner, all_responses))
                     \o " alternative perspectives]")]

\* ------------------------------------------------------------------------
\* Agents (src/agents/generators.py)
\* ------------------------------------------------------------------------
\* str.split(" ") followed by word + " " for every word: the chunks of a
\* mock stream, the words after the first MaxChunks - 1 delivered together
FirstWord(s) ==
    LET cs == Chars(s)
        blanks == {i \in 1..Len(cs) : cs[i] = " "}
    IN  IF blanks = {} THEN s
        ELSE SubSeq(s, 1, CHOOSE i \in blanks : \A j \in blanks : i <= j)

RECURSIVE WordChunks(_, _)
WordChunks(s, n) ==
    IF Len(s) = 0 THEN <<>>
    ELSE IF n <= 1 THEN <<s>>
    ELSE LET w == FirstWord(s)
         IN  <<w>> \o WordChunks(SubSeq(s, Len(w) + 1, Len(s)), n - 1)

\* the text MockAgent.generate_stream splits into words (word_limit is None)
MockStreamText(agent, q) ==
    IF agent.agent_type = "Analytical Agent"
    THEN "Based on data analysis of '" \o Prefix(q, 30) \o "...', the evidence suggests..."
    ELSE IF agent.agent_type = "Creative Agent"
    THEN "What if we approached '" \o Prefix(q, 30) \o "...' from a completely different angle?"
    ELSE IF agent.agent_type = "Pragmatist Agent"
    THEN "From an operational perspective on '" \o Prefix(q, 30)
         \o "...', we need to consider execution..."
    ELSE "Mock response for " \o q

\* the text MegaLLMAgent.generate_stream splits into words without a client
NoClientStreamText(agent, q) ==
    "[Mock " \o agent.agent_type \o " stream (Limit: None) for: " \o Prefix(q, 30) \o "...]"

\* the answer of the generation backend
BackendAnswer(agent) == "Answer of " \o agent.agent_type

\* the chunks a stream delivers when nothing fails; the backend sends its
\* answer as one content delta
StreamChunks(agent, q, mock, client) ==
    IF mock THEN WordChunks(MockStreamText(agent, q) \o " ", MaxChunks)
    ELSE IF ~client THEN WordChunks(NoClientStreamText(agent, q) \o " ", MaxChunks)
    ELSE <<BackendAnswer(agent)>>

\* MegaLLMAgent.generate after _ensure_initialized: the response text
GenerateText(agent, q, client, outcome) ==
    IF ~client THEN "[Mock " \o agent.agent_type \o " response for: " \o Prefix(q, 50) \o "...]"
    ELSE IF outcome = "ok" THEN BackendAnswer(agent)
    ELSE "[Error generating response: backend failure]"

\* ------------------------------------------------------------------------
\* The orchestrator (src/core/council.py): state
\* ------------------------------------------------------------------------
VARIABLES
    mode,               \* "decide" or "generator": the entry point called
    council,            \* LLMCouncil's configuration
    OPENAI_AVAILABLE,   \* the openai package could be imported
    api_key,            \* MEGALLM_API_KEY is set
    hash_seed,          \* Python's string hash seed of the process
    query,
    pc,                 \* where the run is
    error,              \* the exception a run ended with, "" if none
    safety_result,
    tasks,              \* the generation task of every agent
    agent_responses,
    judge_tasks,        \* the evaluate() call of every judge
    evaluations,
    judge_disagreement,
    selected,
    confidence,
    refined_response,
    was_refined,
    was_retried,
    retry_feedback,
    result,             \* the Decision or BlockedDecision returned or yielded last
    audit_log,          \* the entries AuditLogger.log appended
    events,             \* the events decide_generator yielded
    polls,              \* iterations of the polling loop after the first
    calls               \* how many calls of each kind were started

inputs == <<mode, council, OPENAI_AVAILABLE, api_key, hash_seed, query>>
locals == <<evaluations, judge_disagreement, selected, confidence,
            refined_response, was_refined, was_retried, retry_feedback>>
vars == <<mode, council, OPENAI_AVAILABLE, api_key, hash_seed, query, pc, error,
          safety_result, tasks, agent_responses, judge_tasks, evaluations,
          judge_disagreement, selected, confidence, refined_response, was_refined,
          was_retried, retry_feedback, result, audit_log, events, polls, calls>>

\* the queries a run is started with
Queries == {"", "  ", "hi", " what is a monad ", "how to hack a bank",
            "history of the bomb", "why is the sky so very blue"}

\* confidence_threshold: the default 0.6, and 1.0, below which every
\* confidence of less than the full score lies
DefaultThreshold == (6 * ConfOne) \div 10
Thresholds == {DefaultThreshold, ConfOne}

\* str(uuid.uuid4())[:8]
DecisionId == "1b9d6bcd"

\* the components hold a backend client: MegaLLM classes, openai imported
HasClient == ~council.use_mock /\ OPENAI_AVAILABLE

\* _ensure_initialized raises ValueError: openai imported, no API key
InitRaises == ~council.use_mock /\ OPENAI_AVAILABLE /\ ~api_key

AllTexts == [i \in AgentIx |-> agent_responses[i].response_text]

Event(stage, data) == [stage |-> stage, data |-> data]

\* what the consumer reads now in the payload of the k-th event yielded:
\* yield ("agents", agent_responses) hands over the list the stream tasks
\* write to, not a copy of it, so the texts read are the texts of now;
\* data holds the texts as they were at the yield
PayloadNow(k) ==
    IF events[k].stage = "agents" THEN AllTexts ELSE events[k].data

\* the values of the skip_synthesis argument of decide_generator; its body
\* reads self.skip_synthesis and never the argument, so a run is the same
\* run for either value
SkipSynthesisArgs == BOOLEAN

Init ==
    /\ mode \in {"decide", "generator"}
    /\ council \in [use_mock : BOOLEAN,
                    confidence_threshold : Thresholds,
                    max_retries : {0, 1, MaxRetriesCfg},
                    skip_synthesis : BOOLEAN]
    /\ council.confidence_threshold # DefaultThreshold =>
           council.max_retries = 1 /\ ~council.skip_synthesis
    /\ OPENAI_AVAILABLE \in BOOLEAN
    /\ api_key \in BOOLEAN
    /\ council.use_mock => OPENAI_AVAILABLE /\ api_key
    /\ ~OPENAI_AVAILABLE => api_key
    /\ hash_seed \in 0..(HashSeeds - 1)
    /\ (~council.use_mock /\ OPENAI_AVAILABLE) => hash_seed = 0
    /\ query \in Queries
    /\ pc = IF mode = "generator" THEN "start" ELSE "gate"
    /\ error = ""
    /\ safety_result = NoneVal
    /\ tasks = [i \in AgentIx |-> [state |-> "none", sent |-> 0]]
    /\ agent_responses = <<>>
    /\ judge_tasks = [j \in JudgeIx |-> [state |-> "none", evals |-> <<>>, failed |-> {}]]
    /\ evaluations = <<>>
    /\ judge_disagreement = FALSE
    /\ selected = NoneVal
    /\ confidence = 0
    /\ refined_response = NoneVal
    /\ was_refined = FALSE
    /\ was_retried = FALSE
    /\ retry_feedback = ""
    /\ result = NoneVal
    /\ audit_log = <<>>
    /\ events = <<>>
    /\ polls = 0
    /\ calls = [generate |-> 0, evaluate |-> 0, refine |-> 0, refine_feedback |-> 0]

\* ------------------------------------------------------------------------
\* The orchestrator: steps of decide and decide_generator
\* ------------------------------------------------------------------------
Raise(e) ==
    /\ pc' = "raised"
    /\ error' = e

\* decide_generator: yield ("start", None)
YieldStart ==
    /\ pc = "start"
    /\ events' = Append(events, Event("start", NoneVal))
    /\ pc' = "gate"
    /\ UNCHANGED <<inputs, locals, error, safety_result, tasks, agent_responses,
                   judge_tasks, result, audit_log, polls, calls>>

BlockedDecision(q, sr) ==
    [kind |-> "BlockedDecision", decision_id |-> DecisionId, query |-> q,
     safety_passed |-> FALSE, block_reason |-> sr.reason,
     matched_patterns |-> sr.matched_patterns]

\* STEP 1 that goes on to the generator phase whatever the gate says
GateIgnored ==
    /\ pc = "gate"
    /\ safety_result' = Check(query)
    /\ pc' = "generate"
    /\ UNCHANGED <<inputs, locals, error, tasks, agent_responses, judge_tasks,
                   result, audit_log, events, polls, calls>>

\* STEP 1: the safety gate; a rejected query is logged and returned
\* (decide) or yielded (decide_generator) as a BlockedDecision
Gate ==
    /\ pc = "gate"
    /\ safety_result' = Check(query)
    /\ IF ~safety_result'.passed
       THEN LET blocked == BlockedDecision(query, safety_result')
            IN  /\ audit_log' = Append(audit_log, LogEntry(blocked))
                /\ result' = blocked
                /\ events' = IF mode = "generator"
                             THEN Append(events, Event("blocked", blocked))
                             ELSE events
                /\ pc' = IF mode = "generator" THEN "suspended" ELSE "done"
       ELSE /\ pc' = "generate"
            /\ UNCHANGED <<audit_log, result, events>>
    /\ UNCHANGED <<inputs, locals, error, tasks, agent_responses, judge_tasks,
                   polls, calls>>

\* decide, STEP 2: run_agents_parallel creates one generate() per agent
LaunchAgents ==
    /\ pc = "generate"
    /\ mode = "decide"
    /\ tasks' = [i \in AgentIx |-> [state |-> "pending", sent |-> 0]]
    /\ agent_responses' = [i \in AgentIx |-> NoneVal]
    /\ calls' = [calls EXCEPT !.generate = @ + Len(Agents)]
    /\ pc' = "agents_wait"
    /\ UNCHANGED <<inputs, locals, error, safety_result, judge_tasks, result,
                   audit_log, events, polls>>

\* one agent's generate(): MockAgent.generate raises TypeError (it builds
\* AgentResponse(...) from an Ellipsis alone), MegaLLMAgent.generate raises
\* when _ensure_initialized does, and otherwise returns a response
AgentGenerate(i) ==
    /\ pc = "agents_wait"
    /\ tasks[i].state = "pending"
    /\ IF council.use_mock
       THEN /\ tasks' = [tasks EXCEPT ![i].state = "TypeError"]
            /\ UNCHANGED agent_responses
       ELSE IF InitRaises
       THEN /\ tasks' = [tasks EXCEPT ![i].state = "ValueError"]
            /\ UNCHANGED agent_responses
       ELSE \E outcome \in (IF HasClient THEN {"ok", "raise"} ELSE {"ok"}) :
            /\ tasks' = [tasks EXCEPT ![i].state = "done"]
            /\ agent_responses' =
                   [agent_responses EXCEPT ![i] =
                       AgentResponse(Agents[i].agent_id, Agents[i].agent_type,
                                     GenerateText(Agents[i], query, HasClient, outcome))]
    /\ UNCHANGED <<inputs, locals, pc, error, safety_result, judge_tasks, result,
                   audit_log, events, polls, calls>>

TaskFailed(i) == tasks[i].state \in {"TypeError", "ValueError"}
\* a task counted as over as soon as it has started
TaskStarted(i) == tasks[i].state # "pending"

TaskOver(i) == tasks[i].state = "done" \/ TaskFailed(i)

\* decide: asyncio.gather returns the responses in the order of the agents
\* once every task is done, and raises the exception of a failed task
JoinAgents ==
    /\ pc = "agents_wait"
    /\ IF \E i \in AgentIx : TaskFailed(i)
       THEN Raise(tasks[CHOOSE i \in AgentIx : TaskFailed(i)].state)
       ELSE /\ \A i \in AgentIx : tasks[i].state = "done"
            /\ pc' = "evaluate"
            /\ UNCHANGED error
    /\ UNCHANGED <<inputs, locals, safety_result, tasks, agent_responses,
                   judge_tasks, result, audit_log, events, polls, calls>>

\* decide_generator, STEP 2: the empty responses, one stream task per agent,
\* and the first turn of the polling loop, which yields before any task ran
LaunchStream ==
    /\ pc = "generate"
    /\ mode = "generator"
    /\ agent_responses' =
           [i \in AgentIx |-> AgentResponse(Agents[i].agent_id, Agents[i].agent_type, "")]
    /\ tasks' = [i \in AgentIx |-> [state |-> "pending", sent |-> 0]]
    /\ calls' = [calls EXCEPT !.generate = @ + Len(Agents)]
    /\ events' = Append(events, Event("agents", [i \in AgentIx |-> ""]))
    /\ pc' = "polling"
    /\ UNCHANGED <<inputs, locals, error, safety_result, judge_tasks, result,
                   audit_log, polls>>

\* one step of stream_task(agent, response_obj): _ensure_initialized may
\* raise (the task ends with the exception, nobody awaits it), a chunk is
\* appended to the response text, the backend fails and the error chunk is
\* appended, or the stream ends
StreamStep(i) ==
    /\ pc = "polling"
    /\ tasks[i].state \in {"pending", "streaming"}
    /\ LET chunks == StreamChunks(Agents[i], query, council.use_mock, HasClient)
       IN  IF tasks[i].state = "pending" /\ InitRaises
           THEN /\ tasks' = [tasks EXCEPT ![i].state = "ValueError"]
                /\ UNCHANGED agent_responses
           ELSE IF tasks[i].sent = Len(chunks)
           THEN /\ tasks' = [tasks EXCEPT ![i].state = "done"]
                /\ UNCHANGED agent_responses
           ELSE \E outcome \in (IF HasClient THEN {"ok", "raise"} ELSE {"ok"}) :
                IF outcome = "ok"
                THEN /\ tasks' = [tasks EXCEPT ![i] =
                                     [state |-> "streaming", sent |-> @.sent + 1]]
                     /\ agent_responses' =
                            [agent_responses EXCEPT ![i].response_text =
                                @ \o chunks[tasks[i].sent + 1]]
                ELSE /\ tasks' = [tasks EXCEPT ![i].state = "done"]
                     /\ agent_responses' =
                            [agent_responses EXCEPT ![i].response_text =
                                @ \o "[Error: backend failure]"]
    /\ UNCHANGED <<inputs, locals, pc, error, safety_result, judge_tasks, result,
                   audit_log, events, polls, calls>>

\* the polling loop waking up: another snapshot while a task is running,
\* the last snapshot once all(t.done() for t in tasks)
PollTick ==
    /\ pc = "polling"
    /\ IF \A i \in AgentIx : TaskOver(i)
       THEN /\ pc' = "evaluate"
            /\ UNCHANGED polls
       ELSE /\ polls < MaxPolls
            /\ polls' = polls + 1
            /\ UNCHANGED pc
    /\ events' = Append(events, Event("agents", AllTexts))
    /\ UNCHANGED <<inputs, locals, error, safety_result, tasks, agent_responses,
                   judge_tasks, result, audit_log, calls>>

\* STEP 3: run_judges_on_responses creates one evaluate() per judge
LaunchJudges ==
    /\ pc = "evaluate"
    /\ judge_tasks' = [j \in JudgeIx |->
                          [state |-> "pending", evals |-> [a \in AgentIx |-> NoneVal],
                           failed |-> {}]]
    /\ calls' = [calls EXCEPT !.evaluate = @ + Len(Judges)]
    /\ pc' = "judges_wait"
    /\ UNCHANGED <<inputs, locals, error, safety_result, tasks, agent_responses,
                   result, audit_log, events, polls>>

\* a judge's evaluate() starts: MockJudge.evaluate scores every response at
\* once, MegaLLMJudge.evaluate raises when _ensure_initialized does and
\* otherwise creates one _evaluate_single per response
JudgeStart(j) ==
    /\ pc = "judges_wait"
    /\ judge_tasks[j].state = "pending"
    /\ judge_tasks' =
           [judge_tasks EXCEPT ![j] =
               IF council.use_mock
               THEN [state |-> "done",
                     evals |-> [a \in AgentIx |->
                                   MockEvaluate(Judges[j], agent_responses[a], hash_seed)],
                     failed |-> {}]
               ELSE IF InitRaises
               THEN [@ EXCEPT !.state = "ValueError"]
               ELSE [@ EXCEPT !.state = "running"]]
    /\ UNCHANGED <<inputs, locals, pc, error, safety_result, tasks, agent_responses,
                   result, audit_log, events, polls, calls>>

\* the answers the evaluation backend gives in a run: the three kinds of
\* EvalOutcomes in a full run, the further ones as well in a run that starts
\* at the evaluation phase
PayloadKinds ==
    IF mode = "judging" THEN EvalOutcomes \cup ExtraOutcomes ELSE EvalOutcomes

\* one _evaluate_single(query, response) of a judge completes; failed
\* records the responses for which the backend call failed or answered
\* with unusable content
JudgeEvaluateSingle(j, a) ==
    /\ pc = "judges_wait"
    /\ judge_tasks[j].state = "running"
    /\ judge_tasks[j].evals[a] = NoneVal
    /\ \E outcome \in (IF HasClient THEN PayloadKinds ELSE {"good"}) :
           judge_tasks' =
               [judge_tasks EXCEPT
                   ![j].evals[a] =
                       EvaluateSingle(Judges[j], agent_responses[a], HasClient, outcome,
                                      hash_seed),
                   ![j].failed = IF outcome \in UnusableOutcomes THEN @ \cup {a} ELSE @]
    /\ UNCHANGED <<inputs, locals, pc, error, safety_result, tasks, agent_responses,
                   result, audit_log, events, polls, calls>>

JudgeFailed(j) == judge_tasks[j].state = "ValueError"
JudgeOver(j) ==
    /\ judge_tasks[j].state \in {"running", "done"}
    /\ \A a \in AgentIx : judge_tasks[j].evals[a] # NoneVal

\* asyncio.gather over the judges: the evaluations judge by judge, each
\* judge's in the order of the responses; then check_judge_disagreement and,
\* in decide_generator, the judges event
JoinJudges ==
    /\ pc = "judges_wait"
    /\ IF \E j \in JudgeIx : JudgeFailed(j)
       THEN /\ Raise("ValueError")
            /\ UNCHANGED <<evaluations, judge_disagreement, events>>
       ELSE /\ \A j \in JudgeIx : JudgeOver(j)
            /\ evaluations' = Flatten([j \in JudgeIx |-> judge_tasks[j].evals])
            /\ judge_disagreement' =
                   CheckJudgeDisagreement(evaluations', Pts(DisagreementThreshold))
            /\ events' = IF mode = "generator"
                         THEN Append(events, Event("judges", AllTexts))
                         ELSE events
            /\ pc' = "select"
            /\ UNCHANGED error
    /\ UNCHANGED <<inputs, selected, confidence, refined_response, was_refined,
                   was_retried, retry_feedback, safety_result, tasks,
                   agent_responses, judge_tasks, result, audit_log, polls, calls>>

\* STEP 4 and the synthesis switch of STEP 5
Select ==
    /\ pc = "select"
    /\ LET best == SelectBest(agent_responses, evaluations)
       IN  IF best.raised
           THEN /\ Raise("ValueError")
                /\ UNCHANGED <<selected, confidence, refined_response, was_refined>>
           ELSE /\ selected' = best.best_response
                /\ confidence' = best.confidence
                /\ IF council.skip_synthesis
                   THEN /\ refined_response' = selected'
                        /\ was_refined' = FALSE
                        /\ pc' = "retry"
                   ELSE /\ pc' = "refine"
                        /\ UNCHANGED <<refined_response, was_refined>>
                /\ UNCHANGED error
    /\ UNCHANGED <<inputs, evaluations, judge_disagreement, was_retried,
                   retry_feedback, safety_result, tasks, agent_responses,
                   judge_tasks, result, audit_log, events, polls, calls>>

\* self.synthesizer.refine(query, winner, all_responses, judge_feedback)
CallRefine(winner, all_responses, judge_feedback, outcome) ==
    IF council.use_mock
    THEN MockRefine(winner, all_responses, judge_feedback)
    ELSE SynthRefine(winner, all_responses, judge_feedback, HasClient, outcome)

RefineOutcomes ==
    IF InitRaises THEN {"init"} ELSE IF HasClient THEN {"ok", "raise"} ELSE {"ok"}

\* STEP 5 adding the refined response to the drafts
RefineAppends ==
    /\ pc = "refine"
    /\ \E outcome \in RefineOutcomes :
           LET r == CallRefine(selected, agent_responses, "", outcome)
           IN  IF r.raised
               THEN /\ Raise("ValueError")
                    /\ UNCHANGED <<refined_response, was_refined, agent_responses>>
               ELSE /\ refined_response' = r.response
                    /\ agent_responses' = Append(agent_responses, r.response)
                    /\ was_refined' = TRUE
                    /\ pc' = "retry"
                    /\ UNCHANGED error
    /\ calls' = [calls EXCEPT !.refine = @ + 1]
    /\ UNCHANGED <<inputs, evaluations, judge_disagreement, selected, confidence,
                   was_retried, retry_feedback, safety_result, tasks,
                   judge_tasks, result, audit_log, events, polls>>

\* STEP 5: the winner refines its response
Refine ==
    /\ pc = "refine"
    /\ \E outcome \in RefineOutcomes :
           LET r == CallRefine(selected, agent_responses, "", outcome)
           IN  IF r.raised
               THEN /\ Raise("ValueError")
                    /\ UNCHANGED <<refined_response, was_refined>>
               ELSE /\ refined_response' = r.response
                    /\ was_refined' = TRUE
                    /\ pc' = "retry"
                    /\ UNCHANGED error
    /\ calls' = [calls EXCEPT !.refine = @ + 1]
    /\ UNCHANGED <<inputs, evaluations, judge_disagreement, selected, confidence,
                   was_retried, retry_feedback, safety_result, tasks,
                   agent_responses, judge_tasks, result, audit_log, events, polls>>

\* the condition of the corrector phase with the retry budget ignored
LowConfidenceAnyBudget(conf, threshold, retries) == conf < threshold

\* if confidence < self.confidence_threshold and self.max_retries > 0
LowConfidence(conf, threshold, retries) == conf < threshold /\ retries > 0

\* STEP 6 going on to the second refine whether or not the judges' feedback
\* is empty
RetryDecisionAlways ==
    /\ pc = "retry"
    /\ IF LowConfidence(confidence, council.confidence_threshold, council.max_retries)
       THEN /\ retry_feedback' = GetJudgeFeedback(evaluations, selected)
            /\ pc' = "retry_refine"
       ELSE /\ pc' = "risk"
            /\ UNCHANGED retry_feedback
    /\ UNCHANGED <<inputs, evaluations, judge_disagreement, selected, confidence,
                   refined_response, was_refined, was_retried, error,
                   safety_result, tasks, agent_responses, judge_tasks, result,
                   audit_log, events, polls, calls>>

\* STEP 6, up to the second refine: the judges' feedback for the selected
\* response is collected when the confidence is low
RetryDecision ==
    /\ pc = "retry"
    /\ IF LowConfidence(confidence, council.confidence_threshold, council.max_retries)
       THEN /\ retry_feedback' = GetJudgeFeedback(evaluations, selected)
            /\ pc' = IF retry_feedback' # "" THEN "retry_refine" ELSE "risk"
       ELSE /\ pc' = "risk"
            /\ UNCHANGED retry_feedback
    /\ UNCHANGED <<inputs, evaluations, judge_disagreement, selected, confidence,
                   refined_response, was_refined, was_retried, error,
                   safety_result, tasks, agent_responses, judge_tasks, result,
                   audit_log, events, polls, calls>>

\* a boost of two tenths
BoostDouble(conf) == Min(ConfOne, conf + (2 * ConfOne) \div 10)

\* min(1.0, confidence + 0.1)
Boost(conf) == Min(ConfOne, conf + ConfOne \div 10)

\* STEP 6 that stays in the corrector phase while the budget lasts
RetryRefineLoop ==
    /\ pc = "retry_refine"
    /\ \E outcome \in RefineOutcomes :
           LET r == CallRefine(selected, agent_responses, retry_feedback, outcome)
           IN  IF r.raised
               THEN /\ Raise("ValueError")
                    /\ UNCHANGED <<refined_response, was_retried, confidence>>
               ELSE /\ refined_response' = r.response
                    /\ was_retried' = TRUE
                    /\ confidence' = Boost(confidence)
                    /\ pc' = IF calls.refine_feedback + 1 < council.max_retries
                                /\ confidence' < council.confidence_threshold
                             THEN "retry_refine" ELSE "risk"
                    /\ UNCHANGED error
    /\ calls' = [calls EXCEPT !.refine = @ + 1, !.refine_feedback = @ + 1]
    /\ UNCHANGED <<inputs, evaluations, judge_disagreement, selected, was_refined,
                   retry_feedback, safety_result, tasks, agent_responses,
                   judge_tasks, result, audit_log, events, polls>>

\* STEP 6 refining the output of the first refinement instead of the
\* selected response
RetryRefineChained ==
    /\ pc = "retry_refine"
    /\ \E outcome \in RefineOutcomes :
           LET r == CallRefine(refined_response, agent_responses, retry_feedback, outcome)
           IN  IF r.raised
               THEN /\ Raise("ValueError")
                    /\ UNCHANGED <<refined_response, was_retried, confidence>>
               ELSE /\ refined_response' = r.response
                    /\ was_retried' = TRUE
                    /\ confidence' = Boost(confidence)
                    /\ pc' = "risk"
                    /\ UNCHANGED error
    /\ calls' = [calls EXCEPT !.refine = @ + 1, !.refine_feedback = @ + 1]
    /\ UNCHANGED <<inputs, evaluations, judge_disagreement, selected, was_refined,
                   retry_feedback, safety_result, tasks, agent_responses,
                   judge_tasks, result, audit_log, events, polls>>

\* STEP 6, the retry: refine again with the feedback, boost the confidence
RetryRefine ==
    /\ pc = "retry_refine"
    /\ \E outcome \in RefineOutcomes :
           LET r == CallRefine(selected, agent_responses, retry_feedback, outcome)
           IN  IF r.raised
               THEN /\ Raise("ValueError")
                    /\ UNCHANGED <<refined_response, was_retried, confidence>>
               ELSE /\ refined_response' = r.response
                    /\ was_retried' = TRUE
                    /\ confidence' = Boost(confidence)
                    /\ pc' = "risk"
                    /\ UNCHANGED error
    /\ calls' = [calls EXCEPT !.refine = @ + 1, !.refine_feedback = @ + 1]
    /\ UNCHANGED <<inputs, evaluations, judge_disagreement, selected, was_refined,
                   retry_feedback, safety_result, tasks, agent_responses,
                   judge_tasks, result, audit_log, events, polls>>

\* the kill switch of STEP 7 adding its warnings and leaving the level as
\* assessed
KillSwitchKeepsLevel(assessed, conf, threshold, disagreement) ==
    LET low == conf < threshold /\ assessed.level # "CRITICAL"
        risks1 == IF low
                  THEN Append(assessed.risks,
                              "LOW CONFIDENCE (" \o FormatPercent(conf)
                              \o "): Human review recommended")
                  ELSE assessed.risks
    IN  [level |-> assessed.level,
         risks |-> IF disagreement
                   THEN Append(risks1,
                               "JUDGES DISAGREE: Different judges rated this differently")
                   ELSE risks1]

\* the kill switch of STEP 7 warning whatever the risk level
KillSwitchWarnsCritical(assessed, conf, threshold, disagreement) ==
    LET low == conf < threshold
        risks1 == IF low
                  THEN Append(assessed.risks,
                              "LOW CONFIDENCE (" \o FormatPercent(conf)
                              \o "): Human review recommended")
                  ELSE assessed.risks
    IN  [level |-> IF low /\ assessed.level = "LOW" THEN "MEDIUM" ELSE assessed.level,
         risks |-> IF disagreement
                   THEN Append(risks1,
                               "JUDGES DISAGREE: Different judges rated this differently")
                   ELSE risks1]

\* the kill switch of STEP 7: warn, do not block (the warning sign that
\* opens both messages is left out of the strings)
KillSwitch(assessed, conf, threshold, disagreement) ==
    LET low == conf < threshold /\ assessed.level # "CRITICAL"
        risks1 == IF low
                  THEN Append(assessed.risks,
                              "LOW CONFIDENCE (" \o FormatPercent(conf)
                              \o "): Human review recommended")
                  ELSE assessed.risks
    IN  [level |-> IF low /\ assessed.level = "LOW" THEN "MEDIUM" ELSE assessed.level,
         risks |-> IF disagreement
                   THEN Append(risks1,
                               "JUDGES DISAGREE: Different judges rated this differently")
                   ELSE risks1]

\* STEP 8: the Decision object
BuildDecision(risk) ==
    [kind |-> "Decision", decision_id |-> DecisionId, query |-> query,
     agent_responses |-> agent_responses, judge_evaluations |-> evaluations,
     selected_response |-> selected, refined_response |-> refined_response,
     confidence_score |-> confidence, risk_level |-> risk.level,
     identified_risks |-> risk.risks, retry_feedback |-> retry_feedback,
     safety_passed |-> TRUE, judge_disagreement |-> judge_disagreement,
     was_refined |-> was_refined, was_retried |-> was_retried]

\* STEPS 7 to 9 without the audit log
FinalizeNoAudit ==
    /\ pc = "risk"
    /\ LET risk == KillSwitch(AssessRisk(evaluations, confidence, judge_disagreement),
                              confidence, council.confidence_threshold,
                              judge_disagreement)
           decision == BuildDecision(risk)
       IN  /\ result' = decision
           /\ events' = IF mode = "generator"
                        THEN Append(events, Event("final", decision))
                        ELSE events
    /\ pc' = IF mode = "generator" THEN "suspended" ELSE "done"
    /\ UNCHANGED <<inputs, locals, error, safety_result, tasks, agent_responses,
                   judge_tasks, audit_log, polls, calls>>

\* STEPS 7 to 9: risk assessment and kill switch, the Decision, the audit
\* log, and the return (decide) or the final event (decide_generator)
Finalize ==
    /\ pc = "risk"
    /\ LET risk == KillSwitch(AssessRisk(evaluations, confidence, judge_disagreement),
                              confidence, council.confidence_threshold,
                              judge_disagreement)
           decision == BuildDecision(risk)
       IN  /\ audit_log' = Append(audit_log, LogEntry(decision))
           /\ result' = decision
           /\ events' = IF mode = "generator"
                        THEN Append(events, Event("final", decision))
                        ELSE events
    /\ pc' = IF mode = "generator" THEN "suspended" ELSE "done"
    /\ UNCHANGED <<inputs, locals, error, safety_result, tasks, agent_responses,
                   judge_tasks, polls, calls>>

\* decide_generator resumed after its last yield: the generator returns
Close ==
    /\ pc = "suspended"
    /\ pc' = "done"
    /\ UNCHANGED <<inputs, locals, error, safety_result, tasks, agent_responses,
                   judge_tasks, result, audit_log, events, polls, calls>>

Next ==
    \/ YieldStart
    \/ Gate
    \/ LaunchAgents
    \/ \E i \in AgentIx : AgentGenerate(i)
    \/ JoinAgents
    \/ LaunchStream
    \/ \E i \in AgentIx : StreamStep(i)
    \/ PollTick
    \/ LaunchJudges
    \/ \E j \in JudgeIx : JudgeStart(j)
    \/ \E j \in JudgeIx, a \in AgentIx : JudgeEvaluateSingle(j, a)
    \/ JoinJudges
    \/ Select
    \/ Refine
    \/ RetryDecision
    \/ RetryRefine
    \/ Finalize
    \/ Close

Spec == Init /\ [][Next]_vars

\* ------------------------------------------------------------------------
\* The selector on its own: LLMCouncil._select_best called on drawn
\* evaluation lists, and called again on the same list in another order
\* ------------------------------------------------------------------------
\* a roster of two agents without a safety-advocate marker, one whose
\* configured name only carries it, and one whose key carries it too
SelAgents == <<CreateAgent("analytical", "Analytical Agent"),
               CreateAgent("creative", "Creative Agent"),
               CreateAgent("reviewer", "Safety Reviewer"),
               CreateAgent("safety", "Safety Advocate")>>

SelResponses ==
    [i \in 1..Len(SelAgents) |->
        AgentResponse(SelAgents[i].agent_id, SelAgents[i].agent_type,
                      "Draft of " \o SelAgents[i].agent_type)]

\* the total scores a judge gives in the drawn lists
SelTotals == {Pts(4), Pts(8)}

\* an evaluation whose total score is total: every dimension scores total
SelEvaluation(judge, response, total) ==
    JudgeEvaluation(judge, response,
        [i \in 1..Len(judge.dimensions) |-> <<judge.dimensions[i].name, total>>],
        "", <<>>)

\* the evaluations a judge of the panel can have made of a response
SelEvaluations ==
    {SelEvaluation(Judges[j], SelResponses[a], t) :
        j \in JudgeIx, a \in 1..Len(SelResponses), t \in SelTotals}

\* the lists of 0 to MaxSelEvals evaluations: a judge evaluates a response
\* once, so no two entries of a list are of the same judge and response
SelLists ==
    {s \in UNION {[1..n -> SelEvaluations] : n \in 0..MaxSelEvals} :
        \A i, k \in 1..Len(s) :
            i # k => \/ s[i].judge_id # s[k].judge_id
                     \/ s[i].target_agent_id # s[k].target_agent_id}

\* the same evaluations with two neighbours exchanged; every order of a list
\* is reached by exchanging neighbours again and again
Reorderings(evals) ==
    {[i \in 1..Len(evals) |->
         IF i = k THEN evals[k + 1] ELSE IF i = k + 1 THEN evals[k] ELSE evals[i]] :
     k \in 1..(Len(evals) - 1)}

SelInit ==
    /\ mode = "selector"
    /\ council = [use_mock |-> TRUE, confidence_threshold |-> DefaultThreshold,
                  max_retries |-> 1, skip_synthesis |-> FALSE]
    /\ OPENAI_AVAILABLE = TRUE
    /\ api_key = TRUE
    /\ hash_seed = 0
    /\ query = " what is a monad "
    /\ pc = "sel_input"
    /\ error = ""
    /\ safety_result = NoneVal
    /\ tasks = [i \in AgentIx |-> [state |-> "none", sent |-> 0]]
    /\ agent_responses = SelResponses
    /\ judge_tasks = [j \in JudgeIx |-> [state |-> "none", evals |-> <<>>, failed |-> {}]]
    /\ evaluations \in SelLists
    /\ judge_disagreement = FALSE
    /\ selected = NoneVal
    /\ confidence = 0
    /\ refined_response = NoneVal
    /\ was_refined = FALSE
    /\ was_retried = FALSE
    /\ retry_feedback = ""
    /\ result = NoneVal
    /\ audit_log = <<>>
    /\ events = <<>>
    /\ polls = 0
    /\ calls = [generate |-> 0, evaluate |-> 0, refine |-> 0, refine_feedback |-> 0]

\* judge_disagreement = check_judge_disagreement(evaluations), then
\* best_response, confidence, _ = self._select_best(responses, evaluations)
SelectorCall ==
    /\ pc = "sel_input"
    /\ judge_disagreement' =
           CheckJudgeDisagreement(evaluations, Pts(DisagreementThreshold))
    /\ LET best == SelectBest(agent_responses, evaluations)
       IN  IF best.raised
           THEN /\ pc' = "raised"
                /\ error' = "ValueError"
                /\ UNCHANGED <<selected, confidence>>
           ELSE /\ pc' = "sel_done"
                /\ selected' = best.best_response
                /\ confidence' = best.confidence
                /\ UNCHANGED error
    /\ UNCHANGED <<inputs, evaluations, refined_response,
                   was_refined, was_retried, retry_feedback, safety_result,
                   tasks, agent_responses, judge_tasks, result, audit_log, events,
                   polls, calls>>

\* the two aggregations called on the same evaluations in another order
SelectorPermuted ==
    /\ pc = "sel_done"
    /\ \E evals \in Reorderings(evaluations) \ {evaluations} :
           LET best == SelectBest(agent_responses, evals)
           IN  /\ ~best.raised
               /\ evaluations' = evals
               /\ judge_disagreement' =
                      CheckJudgeDisagreement(evals, Pts(DisagreementThreshold))
               /\ selected' = best.best_response
               /\ confidence' = best.confidence
    /\ UNCHANGED <<inputs, refined_response, was_refined,
                   was_retried, retry_feedback, pc, error, safety_result, tasks,
                   agent_responses, judge_tasks, result, audit_log, events, polls,
                   calls>>

SelNext ==
    \/ SelectorCall
    \/ SelectorPermuted

SpecSelect == SelInit /\ [][SelNext]_vars

\* ------------------------------------------------------------------------
\* The assessment on its own: check_judge_disagreement, LLMCouncil._assess_risk
\* and the kill switch of STEP 7 applied to drawn evaluations, confidences
\* and thresholds
\* ------------------------------------------------------------------------
AssessResponses ==
    [i \in AgentIx |-> AgentResponse(Agents[i].agent_id, Agents[i].agent_type,
                                     "Draft of " \o Agents[i].agent_type)]

\* what a judge can say of a response: its two dimension scores and its
\* flagged issues
AssessKinds ==
    {[name |-> "clean", first |-> Pts(8), second |-> Pts(8), issues |-> <<>>],
     [name |-> "middling", first |-> Pts(5), second |-> Pts(5), issues |-> <<>>],
     [name |-> "praised", first |-> Pts(9), second |-> Pts(9),
      issues |-> <<"Lacks sources">>],
     [name |-> "poor", first |-> Pts(4), second |-> Pts(3),
      issues |-> <<"Lacks sources", "Vague claim">>],
     [name |-> "uneven", first |-> Pts(4), second |-> Pts(8), issues |-> <<>>],
     [name |-> "alarming", first |-> Pts(8), second |-> Pts(8),
      issues |-> <<"Potentially Harmful advice">>]}

AssessEvaluation(judge, response, kind) ==
    JudgeEvaluation(judge, response,
        <<<<judge.dimensions[1].name, kind.first>>,
          <<judge.dimensions[2].name, kind.second>>>>,
        "", kind.issues)

\* run_judges_on_responses lists the evaluations judge by judge, each
\* judge's in the order of the responses
AssessSlots ==
    [k \in 1..(Len(Judges) * Len(Agents)) |->
        [judge |-> ((k - 1) \div Len(Agents)) + 1, agent |-> ((k - 1) % Len(Agents)) + 1]]

\* the first n evaluations of such a list, n up to MaxAssessEvals
AssessLists ==
    UNION {{[k \in 1..n |-> AssessEvaluation(Judges[AssessSlots[k].judge],
                                AssessResponses[AssessSlots[k].agent], kinds[k])] :
               kinds \in [1..n -> AssessKinds]} :
           n \in 0..Min(MaxAssessEvals, Len(AssessSlots))}

\* confidences below 0.4, at 0.4 and at 0.6
AssessConfidences == {(35 * ConfOne) \div 100, (4 * ConfOne) \div 10, (6 * ConfOne) \div 10}

AssessInit ==
    /\ mode = "assess"
    /\ council \in [use_mock : {TRUE}, confidence_threshold : Thresholds,
                    max_retries : {1}, skip_synthesis : {FALSE}]
    /\ OPENAI_AVAILABLE = TRUE
    /\ api_key = TRUE
    /\ hash_seed = 0
    /\ query = " what is a monad "
    /\ pc = "as_input"
    /\ error = ""
    /\ safety_result = NoneVal
    /\ tasks = [i \in AgentIx |-> [state |-> "none", sent |-> 0]]
    /\ agent_responses = AssessResponses
    /\ judge_tasks = [j \in JudgeIx |-> [state |-> "none", evals |-> <<>>, failed |-> {}]]
    /\ evaluations \in AssessLists
    /\ judge_disagreement = FALSE
    /\ selected = NoneVal
    /\ confidence \in AssessConfidences
    /\ refined_response = NoneVal
    /\ was_refined = FALSE
    /\ was_retried = FALSE
    /\ retry_feedback = ""
    /\ result = NoneVal
    /\ audit_log = <<>>
    /\ events = <<>>
    /\ polls = 0
    /\ calls = [generate |-> 0, evaluate |-> 0, refine |-> 0, refine_feedback |-> 0]

\* judge_disagreement = check_judge_disagreement(evaluations)
DisagreementCall ==
    /\ pc = "as_input"
    /\ judge_disagreement' =
           CheckJudgeDisagreement(evaluations, Pts(DisagreementThreshold))
    /\ pc' = "as_judged"
    /\ UNCHANGED <<inputs, evaluations, selected, confidence, refined_response,
                   was_refined, was_retried, retry_feedback, error, safety_result,
                   tasks, agent_responses, judge_tasks, result, audit_log, events,
                   polls, calls>>

\* risk_level, identified_risks = self._assess_risk(evaluations, confidence,
\* judge_disagreement)
AssessCall ==
    /\ pc = "as_judged"
    /\ result' = AssessRisk(evaluations, confidence, judge_disagreement)
    /\ pc' = "as_assessed"
    /\ UNCHANGED <<inputs, locals, error, safety_result, tasks, agent_responses,
                   judge_tasks, audit_log, events, polls, calls>>

\* the two warnings of STEP 7 on the assessed level and risks
KillSwitchStep ==
    /\ pc = "as_assessed"
    /\ result' = KillSwitch(result, confidence, council.confidence_threshold,
                            judge_disagreement)
    /\ pc' = "as_done"
    /\ UNCHANGED <<inputs, locals, error, safety_result, tasks, agent_responses,
                   judge_tasks, audit_log, events, polls, calls>>

AssessNext ==
    \/ DisagreementCall
    \/ AssessCall
    \/ KillSwitchStep

SpecAssess == AssessInit /\ [][AssessNext]_vars

\* ------------------------------------------------------------------------
\* The gate on its own: SafetyGate.check applied to drawn queries
\* ------------------------------------------------------------------------
\* the pieces the drawn queries are made of: white space, blocked keywords,
\* a blocked pattern, an allowlisted phrase and a harmless word
GatePieces == <<" ", "xx", "tea ", "bomb ", "Hack ", "steal ", "history of ">>

GateQueries ==
    UNION {{Concat([k \in 1..n |-> GatePieces[w[k]]]) : w \in [1..n -> 1..Len(GatePieces)]} :
           n \in 0..MaxGateWords}

GateInit ==
    /\ mode = "gate"
    /\ council = [use_mock |-> TRUE, confidence_threshold |-> DefaultThreshold,
                  max_retries |-> 1, skip_synthesis |-> FALSE]
    /\ OPENAI_AVAILABLE = TRUE
    /\ api_key = TRUE
    /\ hash_seed = 0
    /\ query \in GateQueries
    /\ pc = "gate_input"
    /\ error = ""
    /\ safety_result = NoneVal
    /\ tasks = [i \in AgentIx |-> [state |-> "none", sent |-> 0]]
    /\ agent_responses = <<>>
    /\ judge_tasks = [j \in JudgeIx |-> [state |-> "none", evals |-> <<>>, failed |-> {}]]
    /\ evaluations = <<>>
    /\ judge_disagreement = FALSE
    /\ selected = NoneVal
    /\ confidence = 0
    /\ refined_response = NoneVal
    /\ was_refined = FALSE
    /\ was_retried = FALSE
    /\ retry_feedback = ""
    /\ result = NoneVal
    /\ audit_log = <<>>
    /\ events = <<>>
    /\ polls = 0
    /\ calls = [generate |-> 0, evaluate |-> 0, refine |-> 0, refine_feedback |-> 0]

\* safety_result = self.safety_gate.check(query)
GateCall ==
    /\ pc = "gate_input"
    /\ safety_result' = Check(query)
    /\ pc' = "gate_done"
    /\ UNCHANGED <<inputs, locals, error, tasks, agent_responses, judge_tasks,
                   result, audit_log, events, polls, calls>>

GateNext == GateCall

SpecGate == GateInit /\ [][GateNext]_vars

\* ------------------------------------------------------------------------
\* decide() from the evaluation phase on, with every answer of the
\* evaluation backend
\* ------------------------------------------------------------------------
\* the query of the runs that start at the evaluation phase
JudgingQuery == " what is a monad "

\* decide() after STEP 2: the gate accepted the query and every agent has
\* returned its response, so the agents are not MockAgents and the API key
\* is set wherever the backend client exists
JudgingInit ==
    /\ mode = "judging"
    /\ council \in [use_mock : {FALSE}, confidence_threshold : Thresholds,
                    max_retries : {1}, skip_synthesis : {FALSE}]
    /\ OPENAI_AVAILABLE \in BOOLEAN
    /\ api_key = TRUE
    /\ hash_seed \in 0..(HashSeeds - 1)
    /\ OPENAI_AVAILABLE => hash_seed = 0
    /\ query = JudgingQuery
    /\ pc = "evaluate"
    /\ error = ""
    /\ safety_result = Check(query)
    /\ tasks = [i \in AgentIx |-> [state |-> "done", sent |-> 0]]
    /\ agent_responses =
           [i \in AgentIx |->
               AgentResponse(Agents[i].agent_id, Agents[i].agent_type,
                             GenerateText(Agents[i], query, HasClient, "ok"))]
    /\ judge_tasks = [j \in JudgeIx |-> [state |-> "none", evals |-> <<>>, failed |-> {}]]
    /\ evaluations = <<>>
    /\ judge_disagreement = FALSE
    /\ selected = NoneVal
    /\ confidence = 0
    /\ refined_response = NoneVal
    /\ was_refined = FALSE
    /\ was_retried = FALSE
    /\ retry_feedback = ""
    /\ result = NoneVal
    /\ audit_log = <<>>
    /\ events = <<>>
    /\ polls = 0
    /\ calls = [generate |-> Len(Agents), evaluate |-> 0, refine |-> 0,
                refine_feedback |-> 0]

JudgingNext ==
    \/ LaunchJudges
    \/ \E j \in JudgeIx : JudgeStart(j)
    \/ \E j \in JudgeIx, a \in AgentIx : JudgeEvaluateSingle(j, a)
    \/ JoinJudges
    \/ Select
    \/ Refine
    \/ RetryDecision
    \/ RetryRefine
    \/ Finalize

SpecJudging == JudgingInit /\ [][JudgingNext]_vars

\* ------------------------------------------------------------------------
\* refine(query, winner, all_responses, judge_feedback) on its own
\* ------------------------------------------------------------------------
\* the longest list of responses handed to refine
MaxRefineResponses == 2

\* lists of responses of different agents of the roster
RefineLists ==
    {s \in UNION {[1..n -> 1..Len(SelResponses)] : n \in 1..MaxRefineResponses} :
        \A i, k \in 1..Len(s) : i # k => s[i] # s[k]}

\* the judges' feedback handed to refine: none, or the notes of a retry
RefineFeedbacks == {"", "Lacks sources"}

\* a synthesizer of either class, with or without the openai package and
\* the API key, about to refine the winner among the responses it is given
RefineInit ==
    /\ mode = "refine"
    /\ council \in [use_mock : BOOLEAN, confidence_threshold : {DefaultThreshold},
                    max_retries : {1}, skip_synthesis : {FALSE}]
    /\ OPENAI_AVAILABLE \in BOOLEAN
    /\ api_key \in BOOLEAN
    /\ council.use_mock => OPENAI_AVAILABLE /\ api_key
    /\ ~OPENAI_AVAILABLE => api_key
    /\ hash_seed = 0
    /\ query = JudgingQuery
    /\ pc = "rf_input"
    /\ error = ""
    /\ safety_result = NoneVal
    /\ tasks = [i \in AgentIx |-> [state |-> "none", sent |-> 0]]
    /\ \E s \in RefineLists :
           /\ agent_responses = [i \in 1..Len(s) |-> SelResponses[s[i]]]
           /\ \E w \in 1..Len(s) : selected = SelResponses[s[w]]
    /\ judge_tasks = [j \in JudgeIx |-> [state |-> "none", evals |-> <<>>, failed |-> {}]]
    /\ evaluations = <<>>
    /\ judge_disagreement = FALSE
    /\ confidence = 0
    /\ refined_response = NoneVal
    /\ was_refined = FALSE
    /\ was_retried = FALSE
    /\ retry_feedback \in RefineFeedbacks
    /\ result = NoneVal
    /\ audit_log = <<>>
    /\ events = <<>>
    /\ polls = 0
    /\ calls = [generate |-> 0, evaluate |-> 0, refine |-> 0, refine_feedback |-> 0]

\* refine up to the backend call: MockSynthesizer.refine returns its
\* response; Synthesizer.refine returns the winner when there are no other
\* responses, ends with the exception of _ensure_initialized, returns the
\* "[REFINED]" text when it has no client, and otherwise awaits the backend
RefineEnter ==
    /\ pc = "rf_input"
    /\ calls' = [calls EXCEPT !.refine = @ + 1]
    /\ LET r == CallRefine(selected, agent_responses, retry_feedback,
                           IF InitRaises THEN "init" ELSE "ok")
       IN  IF r.raised
           THEN /\ Raise("ValueError")
                /\ UNCHANGED refined_response
           ELSE IF r.called
           THEN /\ pc' = "rf_await"
                /\ UNCHANGED <<refined_response, error>>
           ELSE /\ refined_response' = r.response
                /\ pc' = "rf_done"
                /\ UNCHANGED error
    /\ UNCHANGED <<inputs, evaluations, judge_disagreement, selected, confidence,
                   was_refined, was_retried, retry_feedback, safety_result, tasks,
                   agent_responses, judge_tasks, result, audit_log, events, polls>>

\* the backend call of Synthesizer.refine ends: with an answer, which refine
\* returns, or with an exception, which takes refine to its except block
RefineBackend ==
    /\ pc = "rf_await"
    /\ \E outcome \in {"ok", "raise"} :
           IF outcome = "ok"
           THEN /\ refined_response' =
                       CallRefine(selected, agent_responses, retry_feedback, "ok").response
                /\ pc' = "rf_done"
           ELSE /\ pc' = "rf_except"
                /\ UNCHANGED refined_response
    /\ UNCHANGED <<inputs, evaluations, judge_disagreement, selected, confidence,
                   was_refined, was_retried, retry_feedback, error, safety_result,
                   tasks, agent_responses, judge_tasks, result, audit_log, events,
                   polls, calls>>

\* the except block of Synthesizer.refine and the return that follows it
RefineExcept ==
    /\ pc = "rf_except"
    /\ refined_response' =
           CallRefine(selected, agent_responses, retry_feedback, "raise").response
    /\ pc' = "rf_done"
    /\ UNCHANGED <<inputs, evaluations, judge_disagreement, selected, confidence,
                   was_refined, was_retried, retry_feedback, error, safety_result,
                   tasks, agent_responses, judge_tasks, result, audit_log, events,
                   polls, calls>>

RefineNext ==
    \/ RefineEnter
    \/ RefineBackend
    \/ RefineExcept

SpecRefine == RefineInit /\ [][RefineNext]_vars

\* ------------------------------------------------------------------------
\* decide_generator, then decide with the same configuration, the same
\* query and the same backend outcomes
\* ------------------------------------------------------------------------
\* a query the gate accepts and one it rejects
BothQueries == {JudgingQuery, "how to hack a bank"}

BothInit ==
    /\ mode = "generator"
    /\ council \in [use_mock : BOOLEAN, confidence_threshold : {DefaultThreshold},
                    max_retries : {1}, skip_synthesis : {FALSE}]
    /\ OPENAI_AVAILABLE \in BOOLEAN
    /\ api_key \in BOOLEAN
    /\ council.use_mock => OPENAI_AVAILABLE /\ api_key
    /\ ~OPENAI_AVAILABLE => api_key
    /\ hash_seed \in 0..(HashSeeds - 1)
    /\ (~council.use_mock /\ OPENAI_AVAILABLE) => hash_seed = 0
    /\ query \in BothQueries
    /\ pc = "start"
    /\ error = ""
    /\ safety_result = NoneVal
    /\ tasks = [i \in AgentIx |-> [state |-> "none", sent |-> 0]]
    /\ agent_responses = <<>>
    /\ judge_tasks = [j \in JudgeIx |-> [state |-> "none", evals |-> <<>>, failed |-> {}]]
    /\ evaluations = <<>>
    /\ judge_disagreement = FALSE
    /\ selected = NoneVal
    /\ confidence = 0
    /\ refined_response = NoneVal
    /\ was_refined = FALSE
    /\ was_retried = FALSE
    /\ retry_feedback = ""
    /\ result = NoneVal
    /\ audit_log = <<>>
    /\ events = <<>>
    /\ polls = 0
    /\ calls = [generate |-> 0, evaluate |-> 0, refine |-> 0, refine_feedback |-> 0]

\* the decision the staged run delivered in its last event
StagedDecision == events[Len(events)].data

\* the staged run is over and decide is called on the same orchestrator
\* with the same query: the locals of decide start afresh, the events the
\* consumer of the staged run received and the audit log stay
CallDecide ==
    /\ mode = "generator"
    /\ pc = "done"
    /\ mode' = "decide"
    /\ pc' = "gate"
    /\ error' = ""
    /\ safety_result' = NoneVal
    /\ tasks' = [i \in AgentIx |-> [state |-> "none", sent |-> 0]]
    /\ agent_responses' = <<>>
    /\ judge_tasks' = [j \in JudgeIx |-> [state |-> "none", evals |-> <<>>, failed |-> {}]]
    /\ evaluations' = <<>>
    /\ judge_disagreement' = FALSE
    /\ selected' = NoneVal
    /\ confidence' = 0
    /\ refined_response' = NoneVal
    /\ was_refined' = FALSE
    /\ was_retried' = FALSE
    /\ retry_feedback' = ""
    /\ result' = NoneVal
    /\ polls' = 0
    /\ calls' = [generate |-> 0, evaluate |-> 0, refine |-> 0, refine_feedback |-> 0]
    /\ UNCHANGED <<council, OPENAI_AVAILABLE, api_key, hash_seed, query, audit_log,
                   events>>

\* the text of a response whose generation backend failed
IsErrorText(text) == Contains(text, "[Error")

\* AgentGenerate with the generation backend doing for decide what it did
\* for the staged run: it fails for the agents for which it failed there
AgentGenerateAgain(i) ==
    /\ AgentGenerate(i)
    /\ tasks'[i].state = "done" =>
           (IsErrorText(agent_responses'[i].response_text)
               <=> IsErrorText(StagedDecision.agent_responses[i].response_text))

\* JudgeEvaluateSingle: in decide, the evaluation backend answers as it did
\* in the staged run
JudgeEvaluateSingleAgain(j, a) ==
    /\ JudgeEvaluateSingle(j, a)
    /\ mode = "decide" =>
           LET staged == StagedDecision.judge_evaluations[(j - 1) * Len(Agents) + a]
               mine == judge_tasks'[j].evals[a]
           IN  /\ mine.scores = staged.scores
               /\ mine.reasoning = staged.reasoning
               /\ mine.flagged_issues = staged.flagged_issues

BothNext ==
    \/ YieldStart
    \/ Gate
    \/ LaunchStream
    \/ \E i \in AgentIx : StreamStep(i)
    \/ PollTick
    \/ LaunchJudges
    \/ \E j \in JudgeIx : JudgeStart(j)
    \/ \E j \in JudgeIx, a \in AgentIx : JudgeEvaluateSingleAgain(j, a)
    \/ JoinJudges
    \/ Select
    \/ Refine
    \/ RetryDecision
    \/ RetryRefine
    \/ Finalize
    \/ Close
    \/ CallDecide
    \/ LaunchAgents
    \/ \E i \in AgentIx : AgentGenerateAgain(i)
    \/ JoinAgents

SpecBoth == BothInit /\ [][BothNext]_vars

\* ------------------------------------------------------------------------
\* Properties
\* ------------------------------------------------------------------------
\* the run has delivered its artifact: decide returned, decide_generator
\* yielded its last event
Terminal == pc \in {"suspended", "done"}

Accepted == safety_result # NoneVal /\ safety_result.passed
Rejected == safety_result # NoneVal /\ ~safety_result.passed

\* the stages of the events yielded so far
Stages == [i \in 1..Len(events) |-> events[i].stage]

\* the confidence the selector returned, before any retry
SelectorConfidence == SelectBest(agent_responses, evaluations).confidence

\* confidence < threshold, maxRetries > 0 and a non-empty feedback for the
\* selected response
RetryCondition ==
    /\ SelectorConfidence < council.confidence_threshold
    /\ council.max_retries > 0
    /\ GetJudgeFeedback(evaluations, selected) # ""

\* C1: a completed run has produced exactly one artifact, a BlockedDecision
\* if and only if the gate said passed = false and a Decision if and only if
\* it said passed = true; before that there is none, and decide_generator has
\* yielded exactly one closing event, which carries that artifact
C1_ExactlyOneArtifact ==
    IF Terminal
    THEN /\ safety_result # NoneVal
         /\ result # NoneVal
         /\ result.kind \in {"Decision", "BlockedDecision"}
         /\ (result.kind = "BlockedDecision") <=> ~safety_result.passed
         /\ (result.kind = "Decision") <=> safety_result.passed
         /\ mode = "generator" =>
                /\ Cardinality({i \in 1..Len(events) :
                                   events[i].stage \in {"blocked", "final"}}) = 1
                /\ events[Len(events)].data = result
    ELSE result = NoneVal

\* an accepted query of high risk and low confidence has ended in a Decision
C1_Witness ==
    /\ pc = "done"
    /\ safety_result.passed
    /\ result.kind = "Decision"
    /\ result.risk_level = "HIGH"
    /\ result.confidence_score < council.confidence_threshold

\* C2: once the gate has accepted the query no error aborts the run: the
\* run never ends with an exception
C2_AcceptedRunNeverAborts == Accepted => (pc # "raised" /\ error = "")

\* C3: no field of an audit entry, nested fields included, is the raw
\* query, and the hash of the entry is the hash of the query
C3_AuditHoldsNoRawQuery ==
    \A i \in 1..Len(audit_log) :
        LET e == audit_log[i]
        IN  /\ e.query_hash = HashQuery(query)
            /\ e.query_hash # query
            /\ e.decision_id # query
            /\ IF e.type = "decision"
               THEN /\ e.selected_agent # query
                    /\ e.risk_level # query
                    /\ e.full_decision.decision_id # query
                    /\ e.full_decision.risk_level # query
                    /\ e.full_decision.retry_feedback # query
                    /\ e.full_decision.query # query
               ELSE e.block_reason # query

\* C4: once the gate has rejected the query the run is over with a
\* BlockedDecision, and no generation, evaluation or refinement call was or
\* is started
C4_RejectedStartsNoCall ==
    Rejected =>
        /\ Terminal
        /\ result.kind = "BlockedDecision"
        /\ calls.generate = 0 /\ calls.evaluate = 0 /\ calls.refine = 0
        /\ \A i \in AgentIx : tasks[i].state = "none"
        /\ \A j \in JudgeIx : judge_tasks[j].state = "none"

\* decide_generator has returned after a query blocked on a keyword
C4_Witness ==
    /\ pc = "done"
    /\ mode = "generator"
    /\ ~safety_result.passed
    /\ safety_result.matched_patterns # <<>>
    /\ calls.generate = 0

\* C5: a run that has reached its outcome has written exactly one audit
\* entry, the one of its Decision or BlockedDecision; no run writes two
C5_OneAuditWrite ==
    /\ Len(audit_log) <= 1
    /\ Terminal =>
           /\ Len(audit_log) = 1
           /\ audit_log[1].decision_id = result.decision_id
           /\ audit_log[1].type =
                  (IF result.kind = "Decision" THEN "decision" ELSE "blocked")

\* decide has returned a Decision, logged once
C5_Witness ==
    /\ pc = "done"
    /\ mode = "decide"
    /\ result.kind = "Decision"
    /\ Len(audit_log) = 1
    /\ audit_log[1].type = "decision"

\* start, then blocked alone, or agents once or more, judges, final
MatchesPattern(st) ==
    /\ Len(st) >= 2
    /\ st[1] = "start"
    /\ \/ Len(st) = 2 /\ st[2] = "blocked"
       \/ /\ Len(st) >= 4
          /\ st[Len(st)] = "final"
          /\ st[Len(st) - 1] = "judges"
          /\ \A i \in 2..(Len(st) - 2) : st[i] = "agents"

\* the beginning of a sequence that matches the pattern
BeginsPattern(st) ==
    /\ Len(st) >= 1 => st[1] = "start"
    /\ \A i \in 2..Len(st) :
           \/ st[i] = "blocked" /\ i = 2 /\ Len(st) = 2
           \/ st[i] = "agents" /\ (i = 2 \/ st[i - 1] = "agents")
           \/ st[i] = "judges" /\ i > 2 /\ st[i - 1] = "agents"
           \/ st[i] = "final" /\ st[i - 1] = "judges" /\ i = Len(st)

\* C6: the events of decide_generator come in the order of the pattern, and
\* the sequence of a run that is over matches it: closed by blocked or by
\* final
C6_EventsMatchPattern ==
    mode = "generator" =>
        /\ BeginsPattern(Stages)
        /\ pc \in {"suspended", "done", "raised"} => MatchesPattern(Stages)

C8_FinalConfidence ==
    (Terminal /\ Accepted) =>
        LET original == SelectBest(result.agent_responses,
                                   result.judge_evaluations).confidence
        IN  result.confidence_score =
                (IF result.was_retried
                 THEN (IF original + ConfOne \div 10 > ConfOne
                       THEN ConfOne ELSE original + ConfOne \div 10)
                 ELSE original)

\* the retry fired and original + 0.1 is more than 1.0
C8_Witness ==
    /\ pc = "done"
    /\ safety_result.passed
    /\ result.was_retried
    /\ SelectorConfidence + ConfOne \div 10 > ConfOne
    /\ result.confidence_score = ConfOne

\* C9: whatever maxRetries, at most two refine calls are made in a run, at
\* most one of them with feedback, and the confidence is the selector's or
\* the selector's boosted once
C9_RetryAtMostOnce ==
    /\ calls.refine <= 2
    /\ calls.refine_feedback <= 1
    /\ (Accepted /\ selected # NoneVal /\ pc # "raised") =>
           \/ confidence = SelectorConfidence
           \/ /\ was_retried
              /\ confidence = (IF SelectorConfidence + ConfOne \div 10 > ConfOne
                               THEN ConfOne ELSE SelectorConfidence + ConfOne \div 10)

\* maxRetries is more than 1, the retry has fired and the confidence is
\* still below the threshold
C9_Witness ==
    /\ pc = "done"
    /\ council.max_retries > 1
    /\ was_retried
    /\ calls.refine = 2
    /\ calls.refine_feedback = 1
    /\ confidence < council.confidence_threshold

\* the agents the evaluations target, and the average total of one of them
Targets(evals) == {evals[i].target_agent_id : i \in 1..Len(evals)}
AverageTotal(evals, aid) ==
    LET of == {i \in 1..Len(evals) : evals[i].target_agent_id = aid}
        RECURSIVE Sum(_)
        Sum(S) == IF S = {} THEN 0
                  ELSE LET i == CHOOSE x \in S : TRUE
                       IN  evals[i].total_score + Sum(S \ {i})
    IN  Sum(of) \div Cardinality(of)

\* aid's average is strictly above the average of every other agent
StrictlyBest(evals, aid) ==
    \A other \in Targets(evals) \ {aid} :
        AverageTotal(evals, aid) > AverageTotal(evals, other)

\* C10: whenever the selector has run on a list, in whatever order, in which
\* one agent's average is strictly above every other agent's, the response
\* it selected is that agent's
C10_StrictBestSelected ==
    pc = "sel_done" =>
        \A aid \in Targets(evaluations) :
            StrictlyBest(evaluations, aid) =>
                /\ selected.agent_id = aid
                /\ selected \in {agent_responses[i] : i \in 1..Len(agent_responses)}

\* the selector has run on three evaluations of two agents; the strictly
\* best agent is neither the first evaluated nor the first of the responses
C10_Witness ==
    /\ pc = "sel_done"
    /\ Len(evaluations) = 3
    /\ Cardinality(Targets(evaluations)) = 2
    /\ \E aid \in Targets(evaluations) :
           /\ StrictlyBest(evaluations, aid)
           /\ aid # evaluations[1].target_agent_id
           /\ aid # agent_responses[1].agent_id
           /\ selected.agent_id = aid

\* the agents whose average is the best one
TiedBest(evals) ==
    {aid \in Targets(evals) :
        \A other \in Targets(evals) : AverageTotal(evals, aid) >= AverageTotal(evals, other)}

\* the position of an agent in the responses list, and the position of its
\* first evaluation in the evaluation list
PanelIndex(aid) ==
    CHOOSE r \in 1..Len(agent_responses) : agent_responses[r].agent_id = aid
FirstEvaluated(evals, aid) ==
    CHOOSE i \in 1..Len(evals) :
        /\ evals[i].target_agent_id = aid
        /\ \A k \in 1..(i - 1) : evals[k].target_agent_id # aid

\* the safety-advocate marker in the identifier, and in the identifier or
\* the display type of the agent's response
MarkedId(aid) == Contains(Lower(aid), "safety") \/ Contains(Lower(aid), "advocate")
MarkedIdOrType(aid) ==
    LET t == Lower(agent_responses[PanelIndex(aid)].agent_type)
    IN  MarkedId(aid) \/ Contains(t, "safety") \/ Contains(t, "advocate")

\* C11 as stated: on a tie for the best average between agents none of which
\* carries the marker in its identifier or type, the selected response is
\* that of the tied agent that comes first in the responses list, whatever
\* the order of the evaluation list
C11_TieTakesPanelFirst ==
    (pc = "sel_done" /\ Cardinality(TiedBest(evaluations)) >= 2
        /\ \A aid \in TiedBest(evaluations) : ~MarkedIdOrType(aid)) =>
        /\ selected.agent_id \in TiedBest(evaluations)
        /\ \A aid \in TiedBest(evaluations) :
               PanelIndex(selected.agent_id) <= PanelIndex(aid)

\* C11 amended: on such a tie the selected response is that of the tied
\* agent whose first evaluation comes first in the evaluation list; it is
\* the first tied agent of the responses list whenever the evaluation list
\* presents the tied agents in the order of the responses list
C11_TieTakesFirstEvaluated ==
    (pc = "sel_done" /\ Cardinality(TiedBest(evaluations)) >= 2
        /\ \A aid \in TiedBest(evaluations) : ~MarkedIdOrType(aid)) =>
        /\ selected.agent_id \in TiedBest(evaluations)
        /\ selected = agent_responses[PanelIndex(selected.agent_id)]
        /\ \A aid \in TiedBest(evaluations) :
               FirstEvaluated(evaluations, selected.agent_id)
                   <= FirstEvaluated(evaluations, aid)
        /\ (\A a, b \in TiedBest(evaluations) :
                PanelIndex(a) < PanelIndex(b) =>
                    FirstEvaluated(evaluations, a) < FirstEvaluated(evaluations, b))
            => \A aid \in TiedBest(evaluations) :
                   PanelIndex(selected.agent_id) <= PanelIndex(aid)

\* two unmarked agents tie above a third one, and the tied agent evaluated
\* first, which was selected, is not the first of them in the responses list
C11_Witness ==
    /\ pc = "sel_done"
    /\ Cardinality(Targets(evaluations)) = 3
    /\ Cardinality(TiedBest(evaluations)) = 2
    /\ \A aid \in TiedBest(evaluations) : ~MarkedIdOrType(aid)
    /\ \E aid \in TiedBest(evaluations) :
           /\ PanelIndex(aid) < PanelIndex(selected.agent_id)
           /\ FirstEvaluated(evaluations, selected.agent_id)
                  < FirstEvaluated(evaluations, aid)

\* C12 as stated: on a tie for the best average in which some tied agent
\* carries the marker in its identifier or in its display type, the selected
\* response is that of a tied agent carrying the marker
C12_TiePrefersMarkedIdOrType ==
    (pc = "sel_done" /\ Cardinality(TiedBest(evaluations)) >= 2
        /\ \E aid \in TiedBest(evaluations) : MarkedIdOrType(aid)) =>
        /\ selected.agent_id \in TiedBest(evaluations)
        /\ MarkedIdOrType(selected.agent_id)

\* C12 amended: on a tie in which some tied agent carries the marker in its
\* identifier, the selected response is that of the first evaluated of the
\* tied agents with a marked identifier; a marker in the display type alone
\* gives no preference: with no marked identifier among the tied agents the
\* first evaluated tied agent is selected
C12_TiePrefersMarkedId ==
    (pc = "sel_done" /\ Cardinality(TiedBest(evaluations)) >= 2) =>
        LET tied == TiedBest(evaluations)
            marked == {aid \in tied : MarkedId(aid)}
            pool == IF marked = {} THEN tied ELSE marked
        IN  /\ selected.agent_id \in pool
            /\ \A aid \in pool :
                   FirstEvaluated(evaluations, selected.agent_id)
                       <= FirstEvaluated(evaluations, aid)

\* an agent with a marked identifier ties with an unmarked agent that is
\* evaluated before it, and the marked one was selected
C12_Witness ==
    /\ pc = "sel_done"
    /\ Cardinality(TiedBest(evaluations)) >= 2
    /\ MarkedId(selected.agent_id)
    /\ \E aid \in TiedBest(evaluations) :
           /\ ~MarkedIdOrType(aid)
           /\ FirstEvaluated(evaluations, aid)
                  < FirstEvaluated(evaluations, selected.agent_id)

\* C13: the confidence the selector returned is a tenth of the average total
\* score of the agent whose response it returned
C13_ConfidenceIsSelectedAverage ==
    pc = "sel_done" =>
        /\ selected.agent_id \in Targets(evaluations)
        /\ confidence * 10 * ScoreOne
               = AverageTotal(evaluations, selected.agent_id) * ConfOne

\* the selected agent was scored twice with different totals, another agent
\* once, and the confidence is the tenth of the selected agent's average,
\* which differs from the mean of all totals
C13_Witness ==
    /\ pc = "sel_done"
    /\ Len(evaluations) = 3
    /\ Cardinality(Targets(evaluations)) = 2
    /\ \E i, k \in 1..3 :
           /\ evaluations[i].target_agent_id = selected.agent_id
           /\ evaluations[k].target_agent_id = selected.agent_id
           /\ evaluations[i].total_score # evaluations[k].total_score
    /\ confidence = (6 * ConfOne) \div 10
    /\ 3 * confidence * 10 * ScoreOne
           # (evaluations[1].total_score + evaluations[2].total_score
              + evaluations[3].total_score) * ConfOne

\* C14 as stated: given an empty evaluation list the selector does not fail,
\* and returns the first response with confidence 0
C14_EmptyEvaluationsFallBack ==
    (mode = "selector" /\ evaluations = <<>> /\ pc # "sel_input") =>
        /\ pc = "sel_done"
        /\ selected = agent_responses[1]
        /\ confidence = 0

\* the largest difference between the totals two different judges gave the
\* same agent is above d
JudgesApart(evals, d) ==
    \E i, k \in 1..Len(evals) :
        /\ evals[i].target_agent_id = evals[k].target_agent_id
        /\ evals[i].judge_id # evals[k].judge_id
        /\ evals[i].total_score - evals[k].total_score > d

\* C15: once check_judge_disagreement has run, the flag is true exactly when
\* some agent has totals of two judges more than 3.0 apart; totals exactly
\* 3.0 apart do not raise it
C15_DisagreementIffApart ==
    (mode = "assess" /\ pc # "as_input") =>
        (judge_disagreement <=> JudgesApart(evaluations, Pts(3)))

\* both judges scored the first agent, exactly 3.0 apart, and the flag is
\* false
C15_Witness ==
    /\ mode = "assess"
    /\ pc = "as_judged"
    /\ ~judge_disagreement
    /\ \E i, k \in 1..Len(evaluations) :
           /\ evaluations[i].target_agent_id = evaluations[k].target_agent_id
           /\ evaluations[i].judge_id # evaluations[k].judge_id
           /\ evaluations[i].total_score - evaluations[k].total_score = Pts(3)

\* C16: the level _assess_risk returns is CRITICAL when a risk carries a
\* harm marker, whatever the rest; otherwise HIGH for four risks or more or a
\* confidence below 0.4; otherwise MEDIUM for two risks or more, a
\* confidence below 0.6 or disagreeing judges; otherwise LOW
C16_RiskClassification ==
    (mode = "assess" /\ pc = "as_assessed") =>
        LET n == Len(result.risks)
            harm == \E i \in 1..n :
                        \/ Contains(Lower(result.risks[i]), "harmful")
                        \/ Contains(Lower(result.risks[i]), "dangerous")
        IN  result.level =
                IF harm THEN "CRITICAL"
                ELSE IF n >= 4 \/ 10 * confidence < 4 * ConfOne THEN "HIGH"
                ELSE IF n >= 2 \/ 10 * confidence < 6 * ConfOne \/ judge_disagreement
                     THEN "MEDIUM"
                ELSE "LOW"

\* four risks and a confidence below 0.4, and yet CRITICAL because one of
\* the risks carries a harm marker
C16_Witness ==
    /\ mode = "assess"
    /\ pc = "as_assessed"
    /\ result.level = "CRITICAL"
    /\ Len(result.risks) >= 4
    /\ 10 * confidence < 4 * ConfOne

IsLowConfidenceWarning(r) == Len(r) >= 14 /\ SubSeq(r, 1, 14) = "LOW CONFIDENCE"
IsDisagreementWarning(r) == Len(r) >= 15 /\ SubSeq(r, 1, 15) = "JUDGES DISAGREE"

\* C17: the step after the classification appends the low-confidence
\* warning exactly when the confidence is below the threshold and the level
\* is not CRITICAL, and then turns LOW into MEDIUM and leaves the other
\* levels alone; it appends the judges-disagree warning exactly when the
\* judges disagree; nothing else is changed
C17_KillSwitchWarnings ==
    [][(pc = "as_assessed" /\ pc' = "as_done") =>
        LET low == confidence < council.confidence_threshold
                      /\ result.level # "CRITICAL"
            old == Len(result.risks)
            added == SubSeq(result'.risks, old + 1, Len(result'.risks))
        IN  /\ Len(result'.risks) >= old
            /\ SubSeq(result'.risks, 1, old) = result.risks
            /\ Len(added) = (IF low THEN 1 ELSE 0) + (IF judge_disagreement THEN 1 ELSE 0)
            /\ low => IsLowConfidenceWarning(added[1])
            /\ judge_disagreement => IsDisagreementWarning(added[Len(added)])
            /\ result'.level = IF low /\ result.level = "LOW" THEN "MEDIUM"
                               ELSE result.level]_vars

\* a confidence of 0.6 under a threshold of 1.0 with no risk and agreeing
\* judges: classified LOW, warned of the low confidence, promoted to MEDIUM
C17_Witness ==
    /\ mode = "assess"
    /\ pc = "as_done"
    /\ ~judge_disagreement
    /\ 10 * confidence >= 6 * ConfOne
    /\ confidence < council.confidence_threshold
    /\ Len(result.risks) = 1
    /\ IsLowConfidenceWarning(result.risks[1])
    /\ result.level = "MEDIUM"

\* a blocked keyword occurs in the query, a blocked pattern matches it, an
\* allowlist pattern matches it (all case-insensitive)
HitsKeyword(q) ==
    \E i \in 1..Len(blocked_keywords) : Contains(Lower(q), Lower(blocked_keywords[i]))
HitsBlockedPattern(q) ==
    \E i \in 1..Len(blocked_patterns) : Contains(Lower(q), Lower(blocked_patterns[i]))
HitsAllowlist(q) ==
    \E i \in 1..Len(allowlist_patterns) : Contains(Lower(q), Lower(allowlist_patterns[i]))

\* C18: a query that a blocked keyword or a blocked pattern matches is
\* rejected by check even when an allowlist pattern matches it too; check
\* answers "Allowlisted query" only for a query no blocklist rule matches
C18_BlocklistWins ==
    (mode = "gate" /\ pc = "gate_done") =>
        /\ (HitsKeyword(query) \/ HitsBlockedPattern(query)) => ~safety_result.passed
        /\ safety_result.reason = "Allowlisted query" =>
               /\ safety_result.passed
               /\ HitsAllowlist(query)
               /\ ~HitsKeyword(query) /\ ~HitsBlockedPattern(query)

\* a query of acceptable length that both the allowlist and a blocked
\* pattern match was rejected for the pattern
C18_Witness ==
    /\ mode = "gate"
    /\ pc = "gate_done"
    /\ HitsAllowlist(query)
    /\ HitsBlockedPattern(query)
    /\ ~safety_result.passed
    /\ safety_result.reason = "Blocked pattern matched"

\* C19: check reports the first failing check in the order empty, too short,
\* too long, blocked keyword, blocked pattern: the length rejections name
\* the bound and carry no matched pattern whatever the query contains, and a
\* keyword is reported (the first configured one that occurs, alone) rather
\* than a pattern
C19_FirstFailingCheck ==
    (mode = "gate" /\ pc = "gate_done") =>
        LET q == Strip(query)
            sr == safety_result
            short == Len(q) > 0 /\ Len(q) < min_query_length
            long == Len(q) > max_query_length
        IN  /\ Len(q) = 0 =>
                   ~sr.passed /\ sr.reason = "Query is empty"
                       /\ sr.matched_patterns = <<>>
            /\ short =>
                   ~sr.passed /\ sr.matched_patterns = <<>>
                       /\ Contains(sr.reason, "too short")
                       /\ Contains(sr.reason, "min " \o ToString(min_query_length))
            /\ long =>
                   ~sr.passed /\ sr.matched_patterns = <<>>
                       /\ Contains(sr.reason, "too long")
                       /\ Contains(sr.reason, "max " \o ToString(max_query_length))
            /\ (Len(q) > 0 /\ ~short /\ ~long /\ HitsKeyword(q)) =>
                   /\ ~sr.passed
                   /\ Contains(sr.reason, "Blocked keyword")
                   /\ Len(sr.matched_patterns) = 1
                   /\ \E i \in 1..Len(blocked_keywords) :
                          /\ sr.matched_patterns[1] = blocked_keywords[i]
                          /\ Contains(Lower(q), Lower(blocked_keywords[i]))
                          /\ \A j \in 1..(i - 1) :
                                 ~Contains(Lower(q), Lower(blocked_keywords[j]))
            /\ (Len(q) > 0 /\ ~short /\ ~long /\ ~HitsKeyword(q)
                    /\ HitsBlockedPattern(q)) =>
                   ~sr.passed /\ sr.reason = "Blocked pattern matched"
                       /\ sr.matched_patterns # <<>>

\* a query shorter than the minimum that is itself a blocked keyword was
\* rejected for its length, with no matched pattern
C19_Witness ==
    /\ mode = "gate"
    /\ pc = "gate_done"
    /\ HitsKeyword(query)
    /\ Len(Strip(query)) < min_query_length
    /\ ~safety_result.passed
    /\ Contains(safety_result.reason, "min " \o ToString(min_query_length))
    /\ safety_result.matched_patterns = <<>>

\* C20 as stated: once the generation phase of an accepted run is over, there
\* is exactly one response per configured agent, in the order of the agents,
\* none of them missing or empty; no generation task ended the run with an
\* exception, and an agent whose task failed has an error marker in its text
C20_OneResponsePerAgent ==
    (Accepted /\ pc \notin {"agents_wait", "polling"}
        /\ \A i \in AgentIx : TaskOver(i)) =>
        /\ Len(agent_responses) = Len(Agents)
        /\ \A i \in AgentIx :
               /\ agent_responses[i] # NoneVal
               /\ agent_responses[i].agent_id = Agents[i].agent_id
               /\ agent_responses[i].response_text # ""
               /\ TaskFailed(i) => Contains(agent_responses[i].response_text, "[Error")
        /\ ~(pc = "raised" /\ \E i \in AgentIx : TaskFailed(i))

\* the evaluation phase is over: run_judges_on_responses has returned
Judged == pc \notin {"evaluate", "judges_wait", "raised"}

\* the positions of the evaluation list that hold judge j's evaluation of
\* the response of agent a
PairEvaluations(j, a) ==
    {k \in 1..Len(evaluations) :
        /\ evaluations[k].judge_id = Judges[j].judge_id
        /\ evaluations[k].target_agent_id = agent_responses[a].agent_id}

\* C21: once the evaluation phase is over, the evaluation list holds exactly
\* one evaluation for every pair of a configured judge and an agent
\* response, M x N in all, and every entry carries the id of one of the
\* judges and of one of the responses
C21_OneEvaluationPerPair ==
    Judged =>
        /\ Len(evaluations) = Len(Judges) * Len(agent_responses)
        /\ \A j \in JudgeIx, a \in AgentIx : Cardinality(PairEvaluations(j, a)) = 1
        /\ \A k \in 1..Len(evaluations) :
               \E j \in JudgeIx, a \in AgentIx : k \in PairEvaluations(j, a)

\* the judges evaluated with a backend client and the list of the four
\* evaluations went on to the selection
C21_Witness ==
    /\ mode = "judging"
    /\ HasClient
    /\ pc = "select"
    /\ Len(evaluations) = 4
    /\ \A j \in JudgeIx : judge_tasks[j].state = "running"

\* the evaluation a judge made of a response carries the sentinel of a
\* failed evaluation: 5.0 in every dimension of the rubric and a flagged
\* issue that names an evaluation error
ErrorSentinel(e) ==
    /\ \A i \in 1..Len(e.scores) : e.scores[i][2] = Half(10)
    /\ \E i \in 1..Len(e.flagged_issues) :
           Contains(Lower(e.flagged_issues[i]), "evaluation error")

\* C22 as stated: once the evaluation phase is over, every pair whose
\* backend call failed or answered with unusable content has an evaluation
\* with 5.0 in every dimension and an evaluation-error flagged issue, and
\* every other pair of the batch has its evaluation too
C22_FailureGivesErrorEvaluation ==
    (mode = "judging" /\ Judged) =>
        \A j \in JudgeIx :
            /\ \A a \in AgentIx : judge_tasks[j].evals[a] # NoneVal
            /\ \A a \in judge_tasks[j].failed : ErrorSentinel(judge_tasks[j].evals[a])

\* C23 as stated: whenever the responses handed to refine hold no agent
\* other than the winner, refine returns the winner itself, with the same
\* id, type and text, whichever synthesizer the orchestrator was built with
C23_NoOthersReturnsWinner ==
    (mode = "refine" /\ pc = "rf_done"
        /\ NumOthers(selected, agent_responses) = 0) =>
        refined_response = selected

\* C24 as stated: a call of refine never ends with an exception, and from
\* its except block, where a failed backend call takes it, it returns a
\* response with the text of the winner
C24_RefineNeverPropagates ==
    [][(mode = "refine" /\ pc \in {"rf_input", "rf_await", "rf_except"}) =>
          /\ pc' # "raised"
          /\ pc = "rf_except" =>
                 /\ pc' = "rf_done"
                 /\ refined_response'.response_text = selected.response_text]_vars

\* C25 as stated: the confidence of every Decision lies between 0 and 1,
\* whatever scores the evaluation backends returned
C25_ConfidenceInUnitInterval ==
    (Terminal /\ Accepted) =>
        /\ result.confidence_score >= 0
        /\ result.confidence_score <= ConfOne

\* the generation task of agent i was created and has not ended
GenerationInFlight(i) == tasks[i].state \in {"pending", "streaming"}

\* judge j's evaluation of the response of agent a was asked for and is
\* not there yet
EvaluationInFlight(j, a) ==
    \/ judge_tasks[j].state = "pending"
    \/ judge_tasks[j].state = "running" /\ judge_tasks[j].evals[a] = NoneVal

\* the run is at the evaluation phase or beyond it
EvaluationStarted ==
    pc \in {"evaluate", "judges_wait", "select", "refine", "retry",
            "retry_refine", "risk", "suspended", "done"} /\ Accepted

\* the run is at the selection or beyond it
SelectionStarted ==
    pc \in {"select", "refine", "retry", "retry_refine", "risk", "suspended",
            "done"} /\ Accepted

\* C26: while a generation task of the run is in flight the evaluation has
\* not started and no judges event has been yielded, and while an
\* evaluation of a (judge, response) pair is in flight the selection has
\* not started
C26_WaitForAllJoins ==
    /\ (EvaluationStarted \/ \E k \in 1..Len(events) : events[k].stage = "judges") =>
           \A i \in AgentIx : ~GenerationInFlight(i)
    /\ SelectionStarted =>
           \A j \in JudgeIx, a \in AgentIx : ~EvaluationInFlight(j, a)

\* a staged run whose agents streamed their texts and whose judges
\* evaluated one response at a time has yielded its judges event and gone
\* on to the selection
C26_Witness ==
    /\ mode = "generator"
    /\ pc = "select"
    /\ \E k \in 1..Len(events) : events[k].stage = "judges"
    /\ \A i \in AgentIx : tasks[i].state = "done" /\ tasks[i].sent > 0
    /\ \A j \in JudgeIx : judge_tasks[j].state = "running"
    /\ \A j \in JudgeIx, a \in AgentIx : judge_tasks[j].evals[a] # NoneVal

\* response list rs is in the order in which the panel declares the agents
PanelOrder(rs) ==
    /\ Len(rs) = Len(Agents)
    /\ \A i \in AgentIx : rs[i] # NoneVal => rs[i].agent_id = Agents[i].agent_id

\* evaluation list es is ordered by judge and, within a judge, by response
JudgeMajorOrder(es) ==
    /\ Len(es) = Len(Judges) * Len(Agents)
    /\ \A j \in JudgeIx, a \in AgentIx :
           LET e == es[(j - 1) * Len(Agents) + a]
           IN  /\ e.judge_id = Judges[j].judge_id
               /\ e.target_agent_id = Agents[a].agent_id

\* C27: whatever the order in which the tasks of a batch complete, every
\* result sits at the position of its task: the responses, as they arrive,
\* as they are handed to the judges and as the Decision stores them, are in
\* panel order, and the evaluations, as they arrive, as they are handed to
\* the selection and as the Decision stores them, are ordered by judge and,
\* within a judge, by response
C27_ResultOrderIsDeclarationOrder ==
    /\ ((Accepted /\ pc \in {"agents_wait", "polling"}) \/ EvaluationStarted) =>
           PanelOrder(agent_responses)
    /\ (Accepted /\ pc = "judges_wait") =>
           \A j \in JudgeIx, a \in AgentIx :
               (judge_tasks[j].state \in {"running", "done"}
                   /\ judge_tasks[j].evals[a] # NoneVal) =>
                   /\ judge_tasks[j].evals[a].judge_id = Judges[j].judge_id
                   /\ judge_tasks[j].evals[a].target_agent_id = Agents[a].agent_id
    /\ SelectionStarted => JudgeMajorOrder(evaluations)
    /\ (Terminal /\ Accepted) =>
           /\ PanelOrder(result.agent_responses)
           /\ JudgeMajorOrder(result.judge_evaluations)

\* the evaluations completed against the order of declaration: the last
\* judge's of the last response came in while the first judge's of the
\* first response was still awaited
C27_Witness ==
    /\ mode = "decide"
    /\ Accepted
    /\ pc = "judges_wait"
    /\ judge_tasks[1].state = "running"
    /\ judge_tasks[1].evals[1] = NoneVal
    /\ judge_tasks[Len(Judges)].state = "running"
    /\ judge_tasks[Len(Judges)].evals[Len(Agents)] # NoneVal

\* C28 as stated: the response texts a consumer received in an agents event
\* stay what they were when the event was delivered, whatever the
\* generation tasks do afterwards
C28_AgentsEventsAreSnapshots ==
    mode = "generator" =>
        \A k \in 1..Len(events) :
            events[k].stage = "agents" => PayloadNow(k) = events[k].data

\* C29: calling the aggregations again on the same evaluations with two
\* neighbours exchanged changes neither the confidence nor the judge
\* disagreement flag; as every order of a list is reached by such exchanges,
\* both are the same for every permutation of the evaluation list
C29_AggregationIgnoresOrder ==
    [][(mode = "selector" /\ pc = "sel_done" /\ pc' = "sel_done") =>
          /\ confidence' = confidence
          /\ judge_disagreement' = judge_disagreement]_vars

\* a list that starts with the last judge's evaluation of one agent and
\* goes on with the two judges' evaluations of another, on which they are
\* more than the threshold apart, was aggregated
C29_Witness ==
    /\ mode = "selector"
    /\ pc = "sel_done"
    /\ Len(evaluations) = 3
    /\ judge_disagreement
    /\ evaluations[1].judge_id = Judges[2].judge_id
    /\ evaluations[3].judge_id = Judges[1].judge_id
    /\ evaluations[1].target_agent_id # evaluations[2].target_agent_id
    /\ evaluations[2].target_agent_id = evaluations[3].target_agent_id
    /\ evaluations[2].total_score # evaluations[3].total_score

\* <<k, d>>: the d-th dimension of the k-th evaluation, a safety judge's,
\* scores below 5
LowSlots(es) ==
    {p \in UNION {{<<k, d>> : d \in 1..Len(es[k].scores)} : k \in 1..Len(es)} :
        es[p[1]].judge_type = "Safety" /\ es[p[1]].scores[p[2]][2] < Pts(5)}

\* <<k, m>>: the m-th flagged issue of the k-th evaluation
IssueSlots(es) ==
    UNION {{<<k, m>> : m \in 1..Len(es[k].flagged_issues)} : k \in 1..Len(es)}

IssueAt(es, p) == es[p[1]].flagged_issues[p[2]]

\* slot p comes before slot q in evaluation order
SlotBefore(p, q) == p[1] < q[1] \/ (p[1] = q[1] /\ p[2] < q[2])

\* the first slot at which issue x is flagged
FirstSlotOf(es, x) ==
    CHOOSE p \in IssueSlots(es) :
        /\ IssueAt(es, p) = x
        /\ \A q \in IssueSlots(es) : IssueAt(es, q) = x => ~SlotBefore(q, p)

\* C30: the risk list the assessor returns starts with one "Low <dimension>
\* score" entry for every dimension a safety judge scored below 5, in
\* evaluation order; after them come flagged issues only, every flagged
\* issue of every evaluation is in the list, none of the entries after the
\* low scores is a string the list holds earlier, and they stand in the
\* order in which the issues were first flagged
C30_RiskListComposition ==
    (mode = "assess" /\ pc = "as_assessed") =>
        LET risks == result.risks
            lows == LowSlots(evaluations)
            n == Cardinality(lows)
            tail == (n + 1)..Len(risks)
        IN  /\ Len(risks) >= n
            /\ \A p \in lows :
                   risks[Cardinality({q \in lows : SlotBefore(q, p)}) + 1] =
                       "Low " \o evaluations[p[1]].scores[p[2]][1] \o " score: "
                       \o FormatScore(evaluations[p[1]].scores[p[2]][2])
            /\ \A i \in tail :
                   /\ \E p \in IssueSlots(evaluations) : IssueAt(evaluations, p) = risks[i]
                   /\ \A k \in 1..(i - 1) : risks[k] # risks[i]
            /\ \A p \in IssueSlots(evaluations) :
                   \E i \in 1..Len(risks) : risks[i] = IssueAt(evaluations, p)
            /\ \A i, k \in tail :
                   i < k => SlotBefore(FirstSlotOf(evaluations, risks[i]),
                                       FirstSlotOf(evaluations, risks[k]))

\* the safety judge scored both dimensions of a response below 5 and
\* flagged an issue that the factuality judge had flagged before
C30_Witness ==
    /\ mode = "assess"
    /\ pc = "as_assessed"
    /\ Len(evaluations) = 3
    /\ evaluations[1].flagged_issues = <<"Lacks sources">>
    /\ result.risks = <<"Low harm_avoidance score: 4.0", "Low bias score: 3.0",
                        "Lacks sources", "Vague claim">>

\* C31: in every Decision was_retried is true exactly when retry_feedback
\* is not empty, and a feedback that is not empty was collected with the
\* selector's confidence below the threshold and max_retries above 0
C31_RetriedIffFeedback ==
    (Terminal /\ Accepted) =>
        /\ result.was_retried <=> result.retry_feedback # ""
        /\ result.retry_feedback # "" =>
               /\ SelectBest(result.agent_responses,
                             result.judge_evaluations).confidence
                      < council.confidence_threshold
               /\ council.max_retries > 0

\* the confidence was below the threshold with retries allowed, the judges
\* had no feedback for the selected response, and the Decision records no
\* retry
C31_Witness ==
    /\ Terminal
    /\ Accepted
    /\ council.max_retries > 0
    /\ result.confidence_score < council.confidence_threshold
    /\ result.retry_feedback = ""
    /\ ~result.was_retried
    /\ result.was_refined

\* C32: in every Decision the risk level is not LOW when the Decision's
\* confidence is below the configured threshold or below 0.6 or its judge
\* disagreement flag is set, and it is HIGH or CRITICAL when the confidence
\* is below 0.4
C32_RiskMatchesFinalConfidence ==
    (Terminal /\ Accepted) =>
        /\ (\/ result.confidence_score < council.confidence_threshold
            \/ 10 * result.confidence_score < 6 * ConfOne
            \/ result.judge_disagreement) => result.risk_level # "LOW"
        /\ 10 * result.confidence_score < 4 * ConfOne =>
               result.risk_level \in {"HIGH", "CRITICAL"}

\* the selector's confidence was below 0.6, the retry lifted it to 0.6, and
\* the Decision's risk level is LOW
C32_Witness ==
    /\ Terminal
    /\ Accepted
    /\ result.was_retried
    /\ 10 * SelectBest(result.agent_responses, result.judge_evaluations).confidence
           < 6 * ConfOne
    /\ 10 * result.confidence_score >= 6 * ConfOne
    /\ result.risk_level = "LOW"

\* response r is derived from response s: it has the id and the type refine
\* gives to a refinement of s
DerivedFrom(r, s) ==
    /\ r.agent_id = s.agent_id \o "_refined"
    /\ r.agent_type = s.agent_type \o " (Refined)"

\* C33 as stated: in every Decision was_refined is true exactly when
\* refined_response is derived from the selected response, and when
\* was_refined is false refined_response is the selected response itself
C33_RefinedFlagMatchesResponse ==
    (Terminal /\ Accepted) =>
        /\ result.was_refined <=>
               DerivedFrom(result.refined_response, result.selected_response)
        /\ ~result.was_refined =>
               result.refined_response = result.selected_response

\* C34 as stated: when synthesis is skipped, by the skip_synthesis option
\* of the orchestrator or by the skip_synthesis argument of
\* decide_generator, the run makes no call of refine
C34_SkippedSynthesisNeverRefines ==
    \A skip_synthesis \in SkipSynthesisArgs :
        (council.skip_synthesis \/ (mode = "generator" /\ skip_synthesis)) =>
            calls.refine = 0

DecisionKeepsDrafts ==
    /\ result.agent_responses = agent_responses
    /\ result.judge_evaluations = evaluations
    /\ result.selected_response = selected
    /\ Len(result.agent_responses) = Len(Agents)
    /\ \A i \in AgentIx : result.agent_responses[i].agent_id = Agents[i].agent_id
    /\ \E i \in AgentIx : result.agent_responses[i] = result.selected_response
    /\ \A i \in AgentIx : result.agent_responses[i] # result.refined_response
           \/ ~result.was_refined

\* C36: the steps from the synthesis to the Decision leave the drafts, the
\* evaluations and the selected response as the selection left them, and
\* the Decision holds them: one draft per configured agent, the selected
\* response one of them, the refined response not among them
C36_RefinementLeavesDraftsAlone ==
    [][/\ pc \in {"refine", "retry", "retry_refine", "risk"} =>
              /\ agent_responses' = agent_responses
              /\ evaluations' = evaluations
              /\ selected' = selected
       /\ (Accepted /\ pc = "risk" /\ pc' \in {"suspended", "done"}) =>
              DecisionKeepsDrafts']_vars

\* a Decision after a synthesis and a retry: two drafts, the selected
\* response one of them, the refined response another object
C36_Witness ==
    /\ Terminal
    /\ Accepted
    /\ result.was_refined
    /\ result.was_retried
    /\ Len(result.agent_responses) = 2
    /\ result.selected_response = result.agent_responses[2]
    /\ result.refined_response.agent_id = result.agent_responses[2].agent_id \o "_refined"

\* the events that end a staged run
TerminalEvents == {k \in 1..Len(events) : events[k].stage \in {"final", "blocked"}}

\* C38: in a staged run, whenever a final or blocked event has been
\* yielded the audit log holds the record of its decision, and as long as
\* none has been yielded, which is where a consumer that stops reading
\* leaves the run, the audit log holds no record
C38_AuditBeforeTerminalEvent ==
    mode = "generator" =>
        /\ \A k \in TerminalEvents :
               \E n \in 1..Len(audit_log) :
                   /\ audit_log[n].decision_id = events[k].data.decision_id
                   /\ audit_log[n].type =
                          (IF events[k].stage = "final" THEN "decision" ELSE "blocked")
        /\ TerminalEvents = {} => audit_log = <<>>

\* the consumer has been handed the final event, the generator is
\* suspended at its last yield, and the record of the Decision is in the log
C38_Witness ==
    /\ mode = "generator"
    /\ pc = "suspended"
    /\ events[Len(events)].stage = "final"
    /\ Len(audit_log) = 1
    /\ audit_log[1].type = "decision"
    /\ audit_log[1].decision_id = events[Len(events)].data.decision_id

\* decisions d and e agree on what the two entry points must agree on
Agree(d, e) ==
    /\ d.kind = e.kind
    /\ IF d.kind = "Decision"
       THEN /\ d.selected_response.agent_id = e.selected_response.agent_id
            /\ d.selected_response.agent_type = e.selected_response.agent_type
            /\ d.confidence_score = e.confidence_score
            /\ d.risk_level = e.risk_level
            /\ d.identified_risks = e.identified_risks
            /\ d.was_refined = e.was_refined
            /\ d.was_retried = e.was_retried
            /\ d.judge_disagreement = e.judge_disagreement
       ELSE /\ d.block_reason = e.block_reason
            /\ d.matched_patterns = e.matched_patterns

\* decide, called after the staged run, is over
DecideAgainOver == mode = "decide" /\ events # <<>> /\ pc \in {"done", "raised"}

\* C37 as stated: decide, called with the configuration, the query and the
\* backend outcomes of a staged run that delivered a final or a blocked
\* event, returns a decision that agrees with the one of that event
C37_StagedAgreesWithDecide ==
    DecideAgainOver => (pc = "done" /\ Agree(StagedDecision, result))

\* C37 for the configurations whose agents are not mock agents
C37_LiveStagedAgreesWithDecide ==
    (DecideAgainOver /\ ~council.use_mock) =>
        (pc = "done" /\ Agree(StagedDecision, result))

====
